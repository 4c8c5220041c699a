---------------------------- MODULE OneTimeCodes ----------------------------
(***************************************************************************)
(* What the one-time codes of OtpService promise, for each purpose: a code *)
(* stands until it is used, replaced or lost; it can be guessed wrong a    *)
(* limited number of times, and is good for one use.                       *)
(***************************************************************************)
EXTENDS Naturals

CONSTANTS
  Key,         \* purpose and identifier
  Code,        \* numbers of the codes that may be issued for one of them, 0 not one
  MaxWrong     \* wrong guesses that are let through

VARIABLES
  live,        \* the code that stands, 0 for none
  guesses,     \* the wrong guesses it had
  used         \* the codes that were used

vars == <<live, guesses, used>>

Init ==
  /\ live = [k \in Key |-> 0]
  /\ guesses = [k \in Key |-> 0]
  /\ used = [k \in Key |-> {}]

Issue(k, c) ==
  /\ c # live[k] /\ c \notin used[k]
  /\ live' = [live EXCEPT ![k] = c]
  /\ guesses' = [guesses EXCEPT ![k] = 0]
  /\ UNCHANGED used

Miss(k) ==
  /\ live[k] # 0 /\ guesses[k] < MaxWrong
  /\ guesses' = [guesses EXCEPT ![k] = @ + 1]
  /\ UNCHANGED <<live, used>>

\* The codes of K go, out of time or too often guessed.
Lose(K) ==
  /\ live' = [k \in Key |-> IF k \in K THEN 0 ELSE live[k]]
  /\ guesses' = [k \in Key |-> IF k \in K THEN 0 ELSE guesses[k]]
  /\ UNCHANGED used

Use(k) ==
  /\ live[k] # 0
  /\ live' = [live EXCEPT ![k] = 0]
  /\ guesses' = [guesses EXCEPT ![k] = 0]
  /\ used' = [used EXCEPT ![k] = @ \cup {live[k]}]

Next ==
  \/ \E K \in SUBSET {k \in Key : live[k] # 0} : Lose(K)
  \/ \E k \in Key :
       \/ Miss(k)
       \/ Use(k)
       \/ \E c \in Code : Issue(k, c)

Spec == Init /\ [][Next]_vars
=============================================================================
