------------------------------ MODULE RoundLog ------------------------------
(***************************************************************************)
(* What `iterate` promises of the rounds it records, without verbs, files  *)
(* or rounds that came to nothing: a list that only grows, at its end, one *)
(* round at a time, while a loop runs.  A loop may record as many rounds   *)
(* as its command line says.  It ends with a round it records and says     *)
(* why, or it dies and says nothing; what it says is true of the list.     *)
(***************************************************************************)
EXTENDS Naturals, Sequences

CONSTANTS
  Required,  \* symbols no round may turn off
  Size,      \* of a kernel, by its configuration
  MaxLoop,   \* the most rounds a command line asks for
  None       \* nothing was kept, or measured

VARIABLES
  log,    \* the rounds on record: [record, config, kernel]
  left,   \* how many rounds the loop that runs may record, 0 when none runs
  ended   \* why the latest loop ended, or "none"

(* The configuration of a round has what is required.  A size is that of   *)
(* the kernel of the same round.                                           *)
Sound(e) ==
  /\ e.config # None => Required \subseteq e.config
  /\ e.record.size # None => e.kernel # None /\ e.record.size = Size[e.kernel]

(* The last three rounds have kernels, each within one percent of the one  *)
(* before.                                                                 *)
Stable(rounds) ==
  \E n \in 1 .. Len(rounds) :
    /\ n + 2 = Len(rounds)
    /\ \A i \in {n, n + 1, n + 2} : rounds[i].kernel # None
    /\ \A i \in {n, n + 1} :
         /\ 100 * Size[rounds[i + 1].kernel] <= 101 * Size[rounds[i].kernel]
         /\ 100 * Size[rounds[i + 1].kernel] >= 99 * Size[rounds[i].kernel]

Init ==
  /\ log = << >>
  /\ left = 0
  /\ ended = "none"

Begin ==
  /\ left = 0
  /\ left' \in 1 .. MaxLoop
  /\ ended' = "none"
  /\ UNCHANGED log

Grows ==
  /\ Len(log') = Len(log) + 1
  /\ LET e == log'[Len(log')]
     IN  log' = Append(log, e) /\ Sound(e)

GoOn ==
  /\ left > 1
  /\ Grows
  /\ left' = left - 1
  /\ UNCHANGED ended

End(why) ==
  /\ left > 0
  /\ Grows
  /\ left' = 0
  /\ ended' = why
  /\ why = "stable" => Stable(log')
  /\ why = "nothing-new" => log'[Len(log')].record.nothing
  /\ why = "max" => left = 1

Die ==
  /\ left > 0
  /\ left' = 0
  /\ UNCHANGED <<log, ended>>

Next ==
  \/ Begin
  \/ GoOn
  \/ \E why \in {"stable", "nothing-new", "max"} : End(why)
  \/ Die

Spec == Init /\ [][Next]_<<log, left, ended>>
=============================================================================
