------------------------------- MODULE MCCli -------------------------------
(***************************************************************************)
(* Ways to start the chat and the one-shot generation: with and without a  *)
(* template, a BOS token and a prefix, and every thinking control of the   *)
(* system prompt.                                                          *)
(***************************************************************************)
EXTENDS Cli

ALaunch(template, bos, prefix, system, max) ==
    [template |-> template, bos |-> bos, prefix |-> prefix, system |-> system, max |-> max]

CliLaunches ==
    {ALaunch(TRUE, TRUE, TRUE, "keep", TRUE), ALaunch(TRUE, FALSE, FALSE, "off", TRUE),
     ALaunch(FALSE, TRUE, FALSE, "keep", TRUE), ALaunch(FALSE, TRUE, TRUE, "keep", TRUE),
     ALaunch(FALSE, FALSE, FALSE, "on", FALSE)}
=============================================================================
