------------------------------ MODULE MCLogFile ------------------------------
(* Configurations and messages for LogFile. *)
EXTENDS LogFile

SizeAppend       == [open_mode |-> "append", roll_mode |-> "size"]
SizeOverwrite    == [open_mode |-> "overwrite", roll_mode |-> "size"]
CalendarOverwrite == [open_mode |-> "overwrite", roll_mode |-> "calendar"]
CalendarAppend   == [open_mode |-> "append", roll_mode |-> "calendar"]

Rotating   == {SizeAppend, CalendarOverwrite, CalendarAppend}
BySize     == {SizeAppend}

\* Size rotation is blind to time, calendar rotation to length.
FewTimes == [none |-> {0}, size |-> {0}, calendar |-> {0, 1, 2}]
TwoLens  == [none |-> {1}, size |-> {1, 3}, calendar |-> {1}]
=============================================================================
