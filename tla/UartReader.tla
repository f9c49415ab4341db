----------------------------- MODULE UartReader -----------------------------
(***************************************************************************)
(* The reader of waypoint bytes (UartReader.cpp): a waypoint arrives as    *)
(* START, its byte, END, and bit 7 of the byte tells the side of the track *)
(* the reader passes on.  check() reads one byte at a time and keeps its   *)
(* place in `stage`.  The reader is a value, and Check the effect of one   *)
(* byte on it; `reported` is the pair handed to Throttle::setWaypoint.     *)
(***************************************************************************)
EXTENDS Integers

StartSync == 126
EndSync == 127
IsData(byte) == byte \notin {StartSync, EndSync, 0}

None == <<>>
NewReader == [currentPOL |-> 0, stage |-> 0, candidate |-> 0, counter |-> 0,
              reported |-> None]

\* 0b01111111 && x is a logical and: it only tells zero from the rest.
Truth(n) == IF n = 0 THEN 0 ELSE 1

\* The byte after START.
TakeByte(r, byte) ==
  IF IsData(byte) THEN [r EXCEPT !.candidate = byte, !.stage = 2]
                  ELSE [r EXCEPT !.candidate = 0, !.stage = 0, !.counter = 0]

\* END in stage 2.  The stage is left as it is unless the waypoint is known.
TakeEnd(r) ==
  CASE r.candidate = r.currentPOL -> [r EXCEPT !.stage = 0, !.counter = 0]
    [] r.candidate # r.currentPOL /\ r.counter # 1 ->
         [r EXCEPT !.counter = (@ + 1) % 256]
    [] OTHER ->
         LET counted == [r EXCEPT !.counter = 0]
         IN  CASE EndSync = r.currentPOL -> counted
               [] EndSync # r.currentPOL /\ Truth(EndSync) # Truth(r.currentPOL) ->
                    [counted EXCEPT !.currentPOL = r.candidate]
               [] OTHER ->
                    [counted EXCEPT !.reported = <<r.currentPOL, r.candidate \div 128>>]

\* Mutant of Check: START is only looked for between frames.
CheckBusy(r, byte) ==
  LET s == [r EXCEPT !.reported = None]
  IN  CASE byte = StartSync /\ s.stage = 0 -> [s EXCEPT !.stage = 1]
        [] byte # StartSync /\ s.stage = 1 -> TakeByte(s, byte)
        [] byte = EndSync /\ s.stage = 2 -> TakeEnd(s)
        [] byte \notin {StartSync, EndSync} /\ s.stage = 2 ->
             [s EXCEPT !.candidate = 0, !.stage = 0]
        [] OTHER -> s

Check(r, byte) ==
  LET s == [r EXCEPT !.reported = None]
  IN  CASE byte = StartSync -> [s EXCEPT !.stage = 1]
        [] byte # StartSync /\ s.stage = 1 -> TakeByte(s, byte)
        [] byte = EndSync /\ s.stage = 2 -> TakeEnd(s)
        [] byte \notin {StartSync, EndSync} /\ s.stage = 2 ->
             [s EXCEPT !.candidate = 0, !.stage = 0]
        [] OTHER -> s
=============================================================================
