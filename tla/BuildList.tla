----------------------------- MODULE BuildList -----------------------------
(***************************************************************************)
(* What a CI run is to build: the entries of the config file or the inputs *)
(* (internal/ci/config.go), with "all" replaced by what the flake exposes  *)
(* and "changed" by what differs from the base (discover.go, changed.go;   *)
(* Changed says what that is).                                             *)
(***************************************************************************)
EXTENDS Sequences, SequencesExt

Sentinel == {"all", "changed"}

HasSentinel(entries, s) == s \in ToSet(entries)

(* Resolve: an input replaces the list of the file, it does not add to it. *)
Chosen(file, input) == IF input # <<>> THEN input ELSE file

(* A run without entries is refused, and one that names a base nobody      *)
(* reads.                                                                  *)
Accepted(entries, base) ==
  /\ entries # <<>>
  /\ base => HasSentinel(entries, "changed")

(* Installables: class after class, each sorted.                           *)
Installables(packages, devShells, configurations) ==
  packages \o devShells \o configurations

(* resolveBuilds evaluates for the sentinels that are there; "all" of a    *)
(* flake that exposes nothing is an error, "changed" may be empty.         *)
Expansions(entries, all, changed) ==
  [s \in {t \in Sentinel : HasSentinel(entries, t)} |-> IF s = "all" THEN all ELSE changed]

(* expandBuilds: each sentinel where it stands, nothing twice.             *)
ExpandBuilds(entries, expansions) ==
  LET expand(e) == IF e \in DOMAIN expansions THEN expansions[e] ELSE <<e>>
      addNew(out, e) == IF e \in ToSet(out) THEN out ELSE Append(out, e)
  IN FoldLeft(addNew, <<>>, FlattenSeq([i \in DOMAIN entries |-> expand(entries[i])]))

(* The lists a run may have to build.                                      *)
Resolved(files, inputs, bases, all, changed) ==
  LET entries == {e \in {Chosen(f, i) : f \in files, i \in inputs} :
                    \E base \in bases : Accepted(e, base)}
  IN {ExpandBuilds(e, Expansions(e, all, c)) : e \in entries, c \in changed}

=============================================================================
