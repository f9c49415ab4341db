--------------------------- MODULE SettingsLedger ---------------------------
(***************************************************************************)
(* What the stored settings promise, with tasks, file handles and the      *)
(* serialisation left out: a document in memory that is edited while the   *)
(* unit is up, and a record on disk that survives a loss of power.  A      *)
(* commit that nothing disturbs writes exactly the document; a disturbed   *)
(* one may write an older mixture, but always a whole record.  The unit    *)
(* comes up with what the disk holds.                                      *)
(***************************************************************************)
EXTENDS Naturals

CONSTANTS Settings,   \* the names of the settings
          Values,     \* what a setting may hold
          Nothing,    \* a record without any setting
          Seeded(_)   \* a record with its missing settings set to defaults

VARIABLES up, mem, disk, disturbed

vars == <<up, mem, disk, disturbed>>

Whole == [Settings -> Values]

Init ==
  /\ up = FALSE /\ mem = Nothing /\ disturbed = FALSE
  /\ disk \in Whole \union {Nothing}

\* Missing settings are given their defaults, in memory and, if the disk
\* can be written, on disk before the unit is up.
Seed ==
  /\ ~up /\ disk' = Seeded(disk)
  /\ UNCHANGED <<up, mem, disturbed>>

ComeUp ==
  /\ ~up /\ up' = TRUE
  /\ mem' = Seeded(disk) /\ disturbed' = (disk # Seeded(disk))
  /\ UNCHANGED disk

Edit ==
  /\ up /\ mem' \in Whole /\ disturbed' \in BOOLEAN
  /\ UNCHANGED <<up, disk>>

Commit ==
  /\ up /\ disk' \in Whole /\ (~disturbed => disk' = mem)
  /\ UNCHANGED <<up, mem, disturbed>>

LosePower ==
  /\ up /\ up' = FALSE /\ mem' = Nothing /\ disturbed' = FALSE
  /\ UNCHANGED disk

Next == Seed \/ ComeUp \/ Edit \/ Commit \/ LosePower

Spec == Init /\ [][Next]_vars
=============================================================================
