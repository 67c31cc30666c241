---------------------------- MODULE RequestSlots ----------------------------
(***************************************************************************)
(* When a channel may start a request: the paced schedule and the rolling  *)
(* token window of RuntimeLLMAdapter._reserve_request_slot, as operators   *)
(* on the record the adapter keeps under its _rate_lock.  Time is a        *)
(* natural number of ticks; 60 seconds are Window ticks and 60 / rpm are   *)
(* Interval ticks.                                                         *)
(***************************************************************************)
EXTENDS Integers, Sequences, FiniteSetsExt

CONSTANTS Window,       \* ticks a reserved token stays counted
          Interval      \* ticks between two starts

ASSUME SlotAssumption ==
    /\ Window \in Nat \ {0}
    /\ Interval \in Nat

Reservation == [at : Nat, tokens : Nat]

Slots == [next : Nat, held : Seq(Reservation), tokens : Nat]

NoSlots == [next |-> 0, held |-> << >>, tokens |-> 0]

TokensOf(s) == MapThenSumSet(LAMBDA i : s[i].tokens, DOMAIN s)

\* What is left of the reservations when those over at time t are taken out.
\* They are in the order of their starts, so a loop from the front takes all.
Unexpired(s, t) == SelectSeq(s, LAMBDA r : r.at + Window > t)

\* A request that exceeds the window by itself is refused at once.
TooLarge(n, limit) == n > limit

\* Changed form of the code, for a mutant of PROJECT.json: reservations are
\* dropped, and the start is not moved to when they are over.
FitsAtOnce(s, t, n, limit) == t

\* The first time, from t on, at which n tokens fit beside the reservations s
\* that still count then.  Nothing changes between two ends of reservations.
FirstFit(s, t, n, limit) ==
    LET ends == {t} \cup {s[i].at + Window : i \in {j \in DOMAIN s : s[j].at + Window > t}}
    IN  Min({e \in ends : TokensOf(Unexpired(s, e)) + n <= limit})

\* _reserve_request_slot: the record after n tokens are reserved at time now.
\* The start given to the request is that of the last reservation.
Reserved(slots, now, n, limit) ==
    LET earliest == Max({now, slots.next})
        current  == Unexpired(slots.held, now)
        fits     == TokensOf(current) + n <= limit
        start    == IF fits THEN earliest ELSE FirstFit(current, earliest, n, limit)
        kept     == IF fits THEN current ELSE Unexpired(current, start)
    IN  [next   |-> start + Interval,
         held   |-> Append(kept, [at |-> start, tokens |-> n]),
         tokens |-> TokensOf(kept) + n]

\* A schedule in which every start was given by the code respects both
\* budgets: no window of the given length carries more than the limit, and
\* no two starts are closer than the interval.
Paced(schedule) ==
    \A i, j \in DOMAIN schedule : i < j => schedule[i].at + Interval * (j - i) <= schedule[j].at

WithinQuota(schedule, limit) ==
    \A i \in DOMAIN schedule :
        TokensOf(Unexpired(SubSeq(schedule, 1, i), schedule[i].at)) <= limit
=============================================================================
