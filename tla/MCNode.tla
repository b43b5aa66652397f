------------------------------- MODULE MCNode -------------------------------
(* Node for TLC: releases that differ in run directory, store and paths.     *)
EXTENDS Node

MCArgs(url, env, dir, absolute, settings) ==
  [store_url |-> url, env |-> env, dir |-> dir, absolute |-> absolute, settings |-> settings]

Azure == {"AZURE_STORAGE_ACCOUNT_NAME", "RUST_LOG"}

MCValues ==
  {MCArgs({"s3"}, {}, "run", TRUE, "custom"),
   MCArgs({"az"}, Azure, "run", TRUE, "default"),
   MCArgs({"az"}, {"RUST_LOG"}, "run", TRUE, "default"),
   MCArgs({"empty"}, {}, "run", TRUE, "custom"),
   MCArgs({"memory"}, {}, "run", TRUE, "default"),
   MCArgs({}, {}, "run", FALSE, "default"),
   MCArgs({"gs"}, {}, "other", TRUE, "default")}

\* One release, of another run directory.
MCValuesOther == {MCArgs({"s3"}, {}, "other", TRUE, "default")}
=============================================================================
