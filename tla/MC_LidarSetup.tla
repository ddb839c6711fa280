----------------------------- MODULE MC_LidarSetup -----------------------------
(* Instance of LidarSetup: files that give nothing, some or all options, two *)
(* entries for a lidar, too many lidars, an entry without an address, values *)
(* that do not fit.                                                          *)
EXTENDS LidarSetup, TLC

CONSTANTS h1, h2, dataType, blindSpot

File(entries) == [opens |-> TRUE, parses |-> TRUE, lidar_type |-> 8, entries |-> entries]
Entry(ip, given) == [ip |-> ip, given |-> given]
Both == dataType :> 1 @@ blindSpot :> 50

MCHandles == {h1, h2}
MCOptions == {dataType, blindSpot}
MCFiles ==
  {[File(<< >>) EXCEPT !.opens = FALSE], [File(<< >>) EXCEPT !.lidar_type = 1], File(<< >>),
   File(<<Entry(h1, << >>)>>),
   File(<<Entry(h1, dataType :> 1)>>),
   File(<<Entry(h1, dataType :> 1 @@ blindSpot :> 255)>>),
   File(<<Entry(h1, dataType :> 3), Entry(NULL, Both), Entry(h1, Both)>>),
   File(<<Entry(h1, Both), Entry(h2, Both)>>)}

(* Numbers the README allows: 1 to 3 and, in centimetres, 50 to 200. *)
DocumentedFiles ==
  {File(<<Entry(h1, dataType :> d @@ blindSpot :> b)>>) : d \in 1 .. 3, b \in {50, 127, 200}}
===============================================================================
