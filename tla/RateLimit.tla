------------------------------ MODULE RateLimit ------------------------------
(***************************************************************************)
(* The limiter of logins: LoginRateLimit over two MultiKeyRateLimiters of  *)
(* internal/middleware/ratelimit.go, one for addresses and one for         *)
(* accounts.  The other limiters are one such Allow each.                  *)
(*                                                                         *)
(* The limiter of accounts and the handler of the login find the name each *)
(* in its own way: the limiter takes the first of query, form and body,    *)
(* the handler the body.  A request may hold two names, so an attempt has  *)
(* a key, the name it presents to the limiter, and the account it tries.   *)
(*                                                                         *)
(* The times a limiter keeps are ages in ticks, the oldest first.          *)
(***************************************************************************)
EXTENDS Naturals, Sequences, FiniteSets

CONSTANTS Addresses, Names, AddressLimit, NameLimit, Window,
          InFlight       \* bound on the attempts between the two limiters

ASSUME RateAssumption ==
  /\ AddressLimit \in Nat \ {0} /\ NameLimit \in Nat \ {0} /\ Window \in Nat \ {0}
  /\ InFlight \in Nat

VARIABLES
  byAddress,  \* requests of the limiter of addresses: ages of what it let pass
  byName,     \* requests of the limiter of accounts
  attempts,   \* requests between the two limiters: address, key and account
  passed,     \* history: ages of the attempts both let pass, per key
  tried,      \* history: the same, per account
  strayed,    \* history: keys that passed for another account, and such accounts
  refused     \* history: the last attempt with a key was refused for it

rateVars == <<byAddress, byName, attempts, passed, tried, strayed, refused>>

Ages == 0..Window
RateTypeOK ==
  /\ byAddress \in [Addresses -> Seq(Ages)]
  /\ byName \in [Names -> Seq(Ages)] /\ passed \in [Names -> Seq(Ages)]
  /\ tried \in [Names -> Seq(Ages)] /\ strayed \subseteq Names
  /\ attempts \subseteq Addresses \X Names \X Names
  /\ refused \in [Names -> BOOLEAN]

RateInit ==
  /\ byAddress = [a \in Addresses |-> <<>>]
  /\ byName = [n \in Names |-> <<>>] /\ passed = byName /\ tried = byName
  /\ attempts = {} /\ strayed = {}
  /\ refused = [n \in Names |-> FALSE]
-----------------------------------------------------------------------------
\* What lies after the cutoff; a request exactly as old as the window does not.
Recent(times) ==
  LET filtered[i \in 0..Len(times)] ==
        IF i = 0 THEN <<>>
        ELSE IF times[i] < Window THEN Append(filtered[i - 1], times[i])
        ELSE filtered[i - 1]
  IN  filtered[Len(times)]

Allowed(times, limit) == Len(Recent(times)) < limit

\* Mutant: a request that is refused counts as well.
Counted_Always(times, limit) == Append(Recent(times), 0)

\* Allow: a request that passes is counted, one that is refused is not.
Counted(times, limit) ==
  IF Allowed(times, limit) THEN Append(Recent(times), 0) ELSE Recent(times)

\* LoginRateLimit asks for the address ...
AttemptFrom(a, key, account) ==
  /\ <<a, key, account>> \notin attempts /\ Cardinality(attempts) < InFlight
  /\ byAddress' = [byAddress EXCEPT ![a] = Counted(byAddress[a], AddressLimit)]
  /\ attempts' = IF Allowed(byAddress[a], AddressLimit)
                 THEN attempts \cup {<<a, key, account>>} ELSE attempts
  /\ UNCHANGED <<byName, passed, tried, strayed, refused>>

\* ... then for the key; a refusal keeps its place at the address.  What
\* passes goes on to Login, with the account of the body.
AttemptFor(a, key, account) ==
  /\ <<a, key, account>> \in attempts
  /\ attempts' = attempts \ {<<a, key, account>>}
  /\ byName' = [byName EXCEPT ![key] = Counted(byName[key], NameLimit)]
  /\ IF Allowed(byName[key], NameLimit)
     THEN /\ passed' = [passed EXCEPT ![key] = Append(passed[key], 0)]
          /\ tried' = [tried EXCEPT ![account] = Append(tried[account], 0)]
          /\ strayed' = IF key = account THEN strayed ELSE strayed \cup {key, account}
     ELSE UNCHANGED <<passed, tried, strayed>>
  /\ refused' = [refused EXCEPT ![key] = ~Allowed(byName[key], NameLimit)]
  /\ UNCHANGED byAddress

\* A request without any name is not asked for one, and Login turns it away.
Nameless(a) ==
  /\ byAddress' = [byAddress EXCEPT ![a] = Counted(byAddress[a], AddressLimit)]
  /\ UNCHANGED <<byName, attempts, passed, tried, strayed, refused>>

\* What is past the window keeps the age of the window in the limiters, which
\* drop it with the next request of the key, and leaves the history.
Grow(times) == [i \in 1..Len(times) |-> IF times[i] < Window THEN times[i] + 1 ELSE Window]

PassTick ==
  /\ byAddress' = [a \in Addresses |-> Grow(byAddress[a])]
  /\ byName' = [n \in Names |-> Grow(byName[n])]
  /\ passed' = [n \in Names |-> Recent(Grow(passed[n]))]
  /\ tried' = [n \in Names |-> Recent(Grow(tried[n]))]
  /\ refused' = [n \in Names |-> FALSE]
  /\ UNCHANGED <<attempts, strayed>>

RateNext ==
  \/ \E a \in Addresses :
       \/ Nameless(a)
       \/ \E key, account \in Names : AttemptFrom(a, key, account) \/ AttemptFor(a, key, account)
  \/ PassTick

RateSpec == RateInit /\ [][RateNext]_rateVars
-----------------------------------------------------------------------------
(***************************************************************************)
(* Properties.                                                             *)
(***************************************************************************)

\* In any window a name gets at most its limit of attempts through that present
\* it, from whatever addresses, for whatever accounts and however they
\* interleave; and it is refused only when it got exactly that many: attempts
\* that were refused do not keep it out.  For an account that is all the limit
\* there is: it holds for attempts that present the account itself, and nothing
\* is said of one that was tried under another name, or whose name was presented
\* for another account.
LimitIsKeptAndFair ==
  \A n \in Names :
    /\ Len(passed[n]) <= NameLimit
    /\ refused[n] => Len(passed[n]) = NameLimit
    /\ n \notin strayed => Len(tried[n]) <= NameLimit
=============================================================================
