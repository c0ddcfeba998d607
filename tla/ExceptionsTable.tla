--------------------------- MODULE ExceptionsTable ---------------------------
(***************************************************************************)
(* What `world build` promises of exceptions.json, without rounds, runs,   *)
(* verdicts or records: an entry of a package only ever gains, by an       *)
(* override that built just so or that settles for the distribution's      *)
(* binary, and no other package's entry moves with it.  The one way to     *)
(* lose anything is to die while the file is written.                      *)
(***************************************************************************)
CONSTANTS
  Units,   \* packages
  Tokens,  \* what an override may change
  GiveUp,  \* the token that asks for the distribution's binary
  None     \* no override

VARIABLES
  entries,  \* the override on file for every package, or None
  green,    \* the overrides every package has been built with
  writing   \* the file is being rewritten

Empty == [u \in Units |-> None]

Joined(entry, o) == IF entry = None THEN o ELSE entry \cup o

Init ==
  /\ entries = Empty
  /\ green = [u \in Units |-> {}]
  /\ writing = FALSE

(* A build that succeeds.                                                  *)
Confirm(u, o) ==
  /\ ~writing
  /\ GiveUp \notin o
  /\ green' = [green EXCEPT ![u] = @ \cup {o}]
  /\ UNCHANGED <<entries, writing>>

Save(u, o) ==
  /\ ~writing
  /\ o # {}
  /\ GiveUp \in o \/ o \in green[u]
  /\ entries' = [entries EXCEPT ![u] = Joined(@, o)]
  /\ writing' = TRUE
  /\ UNCHANGED green

Written ==
  /\ writing
  /\ writing' = FALSE
  /\ UNCHANGED <<entries, green>>

(* A kill: what was on file is gone, all of it.                            *)
Tear ==
  /\ writing
  /\ writing' = FALSE
  /\ entries' = Empty
  /\ UNCHANGED green

Next ==
  \/ \E u \in Units, o \in SUBSET Tokens : Confirm(u, o) \/ Save(u, o)
  \/ Written
  \/ Tear

Spec == Init /\ [][Next]_<<entries, green, writing>>
=============================================================================
