------------------------------- MODULE Sources --------------------------------
(* What the log records come from: applications, each with srcids of its own. *)
CONSTANTS
  Loaded,  \* the applications named in the configuration file
  New,     \* other names a management call may give
  None     \* nothing: no application, no call, no record, nobody

Apps == Loaded \cup New
===============================================================================
