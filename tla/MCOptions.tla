-------------------------------- MODULE MCOptions --------------------------------
(***************************************************************************)
(* Options on every command line of a few arguments: a flag of each kind,  *)
(* values that parse for one kind and not for another, and an argument     *)
(* that is neither.                                                        *)
(***************************************************************************)
EXTENDS Options

MCArguments ==
    {"--help", "--compare", "--nodes", "--rate", "--padding", "--queue", "--trace",
     "0", "2", "inf", "nan", "fifo"}

================================================================================
