----------------------------- MODULE SetFileArgs -----------------------------
(***************************************************************************)
(* The --set-file arguments of `kubectl openebs upgrade`: the files are    *)
(* put into a ConfigMap under the numbers of their arguments, and the Job  *)
(* is told to read each key from the number that its path has in a map     *)
(* from paths to numbers.                                                  *)
(*                                                                         *)
(* An argument is the sequence of its parts between '=' signs. A path      *)
(* stands for the contents of the file as well: files do not change        *)
(* between two calls.                                                      *)
(***************************************************************************)
EXTENDS Naturals, Sequences

(* The pattern [key, filepath]: both functions refuse anything else. *)
WellFormed(args) == \A i \in DOMAIN args : Len(args[i]) = 2

Key(arg) == arg[1]
Path(arg) == arg[2]

(* First map of config_map_data: contents by number, counted from 1. *)
config_map_data(args) == [i \in DOMAIN args |-> Path(args[i])]

(* Second map: the number of a path. A path given twice has the later one. *)
upgrade_map(args) ==
  [p \in {Path(args[i]) : i \in DOMAIN args} |->
     CHOOSE i \in DOMAIN args :
       /\ Path(args[i]) = p
       /\ \A j \in DOMAIN args : Path(args[j]) = p => j <= i]

(* What the Job's command line says: each key, and the number to read. A
   definition whose name begins with Wrong is a plausible bug in the next. *)
WrongZeroBased(args) ==
  [i \in DOMAIN args |-> [key |-> Key(args[i]), file |-> i - 1]]
job_set_file_args(args) ==
  [i \in DOMAIN args |->
     [key |-> Key(args[i]), file |-> upgrade_map(args)[Path(args[i])]]]

(* The Job of `jobArgs`, with the ConfigMap of `cmArgs` mounted, reads every
   key from the file that was given for it. *)
Resolves(jobArgs, cmArgs) ==
  \A i \in DOMAIN jobArgs :
    LET n == job_set_file_args(jobArgs)[i].file
    IN  n \in DOMAIN config_map_data(cmArgs)
        /\ config_map_data(cmArgs)[n] = Path(jobArgs[i])

=============================================================================
