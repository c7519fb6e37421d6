----------------------------- MODULE FramePace -----------------------------
(***************************************************************************)
(* The frame rate the capture helper holds (_Pacer): a pure algorithm over *)
(* the evidence of one window after another.  It steps down a list of      *)
(* rates when two windows in a row could not hold the rate, and up again   *)
(* when frames have been cheap for a while and the higher rate has served  *)
(* its cooling-off, which doubles with every failure.                      *)
(*                                                                         *)
(* The index of a rate counts downwards from 1, the rate asked for; what   *)
(* the rates are does not matter.  A window is one unit of time.           *)
(***************************************************************************)
EXTENDS Naturals, Sequences

CONSTANTS
  Rates,      \* how many rates there are to step through
  Settle,     \* _Pacer.SETTLE, in windows
  Retry,      \* _Pacer.RETRY
  MaxRetry,   \* _Pacer.MAX_RETRY
  Windows     \* bound: windows of evidence

ASSUME PaceConstants ==
  /\ {Rates, Settle, Retry, MaxRetry, Windows} \subseteq Nat \ {0}
  /\ Retry <= MaxRetry

\* What a window shows: too few frames or too dear ones, frames that fit, or frames cheap
\* enough for the next higher rate.
Evidence == {"over", "fits", "easy"}

AtMost(x, y) == IF x < y THEN x ELSE y

\* A new pacer.  cooled: when a rate may be tried again; wait: its next cooling-off.
Fresh == [rate |-> 1, bad |-> 0, primed |-> FALSE, changed |-> 0,
          cooled |-> [r \in 1..Rates |-> 0], wait |-> [r \in 1..Rates |-> Retry]]

\* The first window at a new rate is no evidence.
Step(p, rate, now) ==
  [p EXCEPT !.rate = rate, !.bad = 0, !.primed = FALSE, !.changed = now]

\* Mutant of Lowered: the cooling-off does not grow.
LoweredFlat(p, now) ==
  Step([p EXCEPT !.cooled[p.rate] = now + p.wait[p.rate]], p.rate + 1, now)

Lowered(p, now) ==
  Step([p EXCEPT !.cooled[p.rate] = now + p.wait[p.rate],
                 !.wait[p.rate] = AtMost(2 * @, MaxRetry)], p.rate + 1, now)

MayRise(p, now) ==
  /\ p.rate > 1
  /\ now - p.changed > Settle
  /\ now >= p.cooled[p.rate - 1]

\* The pacer after the window that ends at time now.
Judged(p, seen, now) ==
  LET q == [p EXCEPT !.bad = IF seen = "over" THEN @ + 1 ELSE 0]
  IN IF ~p.primed THEN [p EXCEPT !.primed = TRUE]
     ELSE IF q.bad >= 2 /\ q.rate < Rates THEN Lowered(q, now)
     ELSE IF seen = "easy" /\ MayRise(q, now) THEN Step(q, q.rate - 1, now)
     ELSE q

\* The pacer after each window of a session that sees e.
Paced(e) ==
  LET after[n \in 0..Len(e)] == IF n = 0 THEN Fresh ELSE Judged(after[n - 1], e[n], n)
  IN after

----------------------------------------------------------------------------
(* What the pacer promises, told from the rates it went through alone.     *)

Down(run, r, n) == run[n - 1].rate = r /\ run[n].rate = r + 1

Doubled[k \in Nat \ {0}] == IF k = 1 THEN Retry ELSE AtMost(2 * Doubled[k - 1], MaxRetry)

Failures(run, r, n) == {k \in 1..n : Down(run, r, k)}

CountOf(S) == LET size[n \in 0..Windows] == IF n = 0 THEN 0
                                           ELSE size[n - 1] + (IF n \in S THEN 1 ELSE 0)
              IN size[Windows]

LatestOf(S) == CHOOSE n \in S : \A m \in S : m <= n

\* "Quick to back off, slow to climb": a rate is left only for two windows in a row that
\* could not hold it; a rate that has failed k times is not taken again before its
\* cooling-off, doubled with every failure, is over; and nothing climbs before the
\* settling time.
SettlesOn(e) ==
  LET run == Paced(e)
  IN \A n \in 1..Len(e) :
       /\ run[n].rate > run[n - 1].rate =>
            /\ run[n].rate = run[n - 1].rate + 1
            /\ n > 1 /\ e[n] = "over" /\ e[n - 1] = "over" /\ run[n - 2].rate = run[n - 1].rate
       /\ run[n].rate < run[n - 1].rate =>
            LET failed == Failures(run, run[n].rate, n)
            IN /\ run[n].rate = run[n - 1].rate - 1
               /\ failed # {}
               /\ n - LatestOf(failed) >= Doubled[CountOf(failed)]
               /\ \A m \in (n - AtMost(n, Settle))..n - 1 : run[m].rate = run[n - 1].rate

\* The rate of frames, whatever windows a session sees, moves by these rules: it does not
\* see-saw between a rate that fails and one that looks cheap.
PaceSettles == \A e \in [1..Windows -> Evidence] : SettlesOn(e)
=============================================================================
