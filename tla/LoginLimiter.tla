---------------------------- MODULE LoginLimiter ----------------------------
(***************************************************************************)
(* The login limiter (internal/auth/limiter.go): failed logins are counted *)
(* per address and account and per account, and delay the next ones.       *)
(*                                                                         *)
(* Each method is one critical section of the limiter's mutex.  entries is *)
(* the map, the most recently seen entry first, which is all that          *)
(* evictOldest looks at.  Times are kept as distances from now, in units   *)
(* of the first delay (250 ms): age is now - windowStart, idle is          *)
(* now - seen, and next is seen + Delay.  An account is a username folded  *)
(* the way loginKey and accountKey fold it, so that all its spellings      *)
(* share one entry.                                                        *)
(***************************************************************************)
EXTENDS Doubling, SequencesExt

CONSTANTS
  Accounts,    \* folded usernames
  Addresses,   \* client addresses
  AnyAddress,  \* in the key that stands for an account alone
  Window,      \* window, in units of the first delay
  MaxShift,    \* the delay doubles so many times (5 in the code)
  MaxEntries   \* maxEntries

\* The controller's limiter holds 4096 entries, and Failure adds up to two.
ASSUME LimiterAssumption ==
  /\ AnyAddress \notin Addresses
  /\ Window \in Nat \ {0}
  /\ MaxShift \in Nat
  /\ MaxEntries \in Nat \ {0, 1}

VARIABLE entries

loginKey(ip, who) == <<who, ip>>
accountKey(who) == <<who, AnyAddress>>
Keys == Accounts \X (Addresses \cup {AnyAddress})
MaxDelay == TwoTo[MaxShift]
Entry == [key : Keys, failures : 1..(MaxShift + 1), age : 0..Window, idle : 0..MaxDelay]

\* Every entry is an attempt, no key has two, and whatever is typed and from
\* wherever there are no more than the limit, although a failure adds two.
LimiterTypeOK ==
  /\ entries \in Seq(Entry)
  /\ Len(entries) <= MaxEntries
  /\ \A i, j \in DOMAIN entries : entries[i].key = entries[j].key => i = j

LimiterInit == entries = <<>>

-----------------------------------------------------------------------------
\* The entry of a key; a key without one has the zero value.
Lookup(k) ==
  IF \E i \in DOMAIN entries : entries[i].key = k
  THEN entries[CHOOSE i \in DOMAIN entries : entries[i].key = k]
  ELSE [key |-> k, failures |-> 0, age |-> Window, idle |-> MaxDelay]

Delay(e) == TwoTo[e.failures - 1]
\* How long an entry still delays; with the window the delay ends as well.
Wait(e) == IF e.failures > 0 /\ e.age < Window /\ e.idle < Delay(e) THEN Delay(e) - e.idle ELSE 0
WaitOf(ip, who) ==
  LET own == Wait(Lookup(loginKey(ip, who)))
      all == Wait(Lookup(accountKey(who)))
  IN IF own > all THEN own ELSE all

Allow(ip, who) == WaitOf(ip, who) = 0

\* One more failure of a key; the first one of a window counts from one.
BumpForever(k) ==
  LET e == Lookup(k) IN
  [key |-> k, idle |-> 0,
   failures |-> IF e.failures > MaxShift THEN e.failures ELSE e.failures + 1,
   age |-> IF e.failures = 0 THEN 0 ELSE e.age]
Bump(k) ==
  LET e == Lookup(k)
      fresh == e.age >= Window
  IN [key |-> k, idle |-> 0,
      failures |-> IF fresh THEN 1 ELSE IF e.failures > MaxShift THEN e.failures ELSE e.failures + 1,
      age |-> IF fresh THEN 0 ELSE e.age]

\* delete: a map without the entry of a key.
Delete(es, k) ==
  IF \E i \in DOMAIN es : es[i].key = k
  THEN RemoveAt(es, CHOOSE i \in DOMAIN es : es[i].key = k)
  ELSE es
Others(ip, who) == Delete(Delete(entries, loginKey(ip, who)), accountKey(who))

\* evictOldest until there is room.
EvictLate(es) == IF Len(es) > MaxEntries + 1 THEN SubSeq(es, 1, MaxEntries + 1) ELSE es
Evict(es) == IF Len(es) > MaxEntries THEN SubSeq(es, 1, MaxEntries) ELSE es

\* Both keys are seen at the same time: either may count as the older one.
Failure(ip, who) ==
  LET own == Bump(loginKey(ip, who))
      all == Bump(accountKey(who))
  IN entries' \in {Evict(<<own, all>> \o Others(ip, who)), Evict(<<all, own>> \o Others(ip, who))}

Success(ip, who) == entries' = Others(ip, who)

\* Time passes.  Once its window is over, nothing of an entry is read again but
\* that it is there; its other fields are dropped.
Aged(e) ==
  IF e.age + 1 >= Window
  THEN [key |-> e.key, failures |-> 1, age |-> Window, idle |-> MaxDelay]
  ELSE [e EXCEPT !.age = @ + 1, !.idle = IF @ < MaxDelay THEN @ + 1 ELSE @]
LimiterTick == entries' = [i \in DOMAIN entries |-> Aged(entries[i])]

=============================================================================
