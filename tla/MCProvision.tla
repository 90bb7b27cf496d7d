---------------------------- MODULE MCProvision ----------------------------
(***************************************************************************)
(* Two runs at once, a worker with two assets or none, the account in the  *)
(* environment, three kinds of registry; requests outlast two ticks.       *)
(***************************************************************************)
EXTENDS Provision, TLC

MCBundles == {{}, {"index", "logo"}}
MCGiven == {"cf-account-id"}
MCHosts == {"ghcr.io", "registry.gitlab.com", "registry.example.com"}
MCCommands == {"init", "configure"}
Symmetry == Permutations(Proc)

=============================================================================
