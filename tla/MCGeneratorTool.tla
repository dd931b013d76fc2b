--------------------------- MODULE MCGeneratorTool ---------------------------
(***************************************************************************)
(* GeneratorTool for TLC: calls that leave most options at their default   *)
(* and calls with shorter frames, with and without dynamic fields,          *)
(* in bursts, and with a total that needs both halves of the register.     *)
(***************************************************************************)
EXTENDS GeneratorTool

Calls ==
  { [disable |-> TRUE],
    [interframe_gap |-> 8, frame_size |-> 20],
    [frame_size |-> 25, testframe_type |-> "dynamic", total_frames |-> 300,
     frame_data |-> <<"f", "F", "1", "0", "9", "c", "7">>],
    [frame_size |-> 9, testframe_type |-> "static", frames_per_burst |-> 3,
     interburst_gap |-> 40,
     frame_data |-> <<"e", "1", "e", "2", "e", "3", "E", "4", "e", "5">>] }
=============================================================================
