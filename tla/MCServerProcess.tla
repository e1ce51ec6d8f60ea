-------------------------- MODULE MCServerProcess --------------------------
(* ServerProcess for TLC: integers of 8 bits and a kilo of 2, so that       *)
(* products of the units KB to TB (2 to 16) overflow.  17TB is 272, which   *)
(* wraps to 16; 8TB and 16TB wrap to a negative size and to zero.           *)
EXTENDS ServerProcess

AFewNumbers == {0, 7, 8, 16, 17, 128}
OfferedFiles == [num : AFewNumbers, unit : {"KB", "MB", "GB", "TB"}] \ {[num |-> 7, unit |-> "GB"]}
AFewSizes == {-1, 1, 3, 4}
AllServed == {{"shell", "filespeedtest", "librespeed", "speedtestdotnet"}}
=============================================================================
