------------------------------ MODULE Packaging ------------------------------
(***************************************************************************)
(* "cargo xtask package": xtask/src/main.rs cmd_package makes an IPS       *)
(* archive of the built program.  It is a pipeline of external tools over  *)
(* files under pkg/, which outlive it: a step may fail or the run be       *)
(* killed, the developer builds and commits meanwhile, and runs it again.  *)
(*                                                                         *)
(* A binary is known by the number of its build, a version of the package  *)
(* by its commit count, and dependencies by the binary they were found in. *)
(***************************************************************************)
EXTENDS Naturals

CONSTANTS
  None,      \* no such file
  Partial,   \* a file whose writer failed
  MaxBuilds, MaxCommits, MaxRuns  \* BOUND: builds, commits, and runs

ASSUME PackagingAssumption ==
  /\ MaxBuilds \in Nat /\ MaxCommits \in Nat /\ MaxRuns \in Nat
  /\ None # Partial

\* The files below pkg/ that one step writes and a later one reads.
Files == {"proto", "base", "generate", "resolve", "final", "repo", "p5p"}

Steps == {"start", "remove", "create", "git", "copy", "base", "generate", "resolve",
          "final", "pkgfmt", "repo", "publisher", "send", "recv"}

VARIABLES
  prog,    \* the build in target/release, 0 if there is none
  head,    \* commits on HEAD
  pkg,     \* pkg[f]: the content of a file below pkg/
  pc,      \* the next step of the run, "done" or "failed"
  commit_count,
  hit,     \* history: this run was hit by a fault that is not of its making
  runs

world == <<prog, head>>
vars == <<prog, head, pkg, pc, commit_count, hit, runs>>

TypeOK ==
  /\ prog \in 0 .. MaxBuilds /\ head \in 0 .. MaxCommits
  /\ DOMAIN pkg = Files
  /\ pc \in Steps \cup {"done", "failed"}
  /\ commit_count \in 0 .. head
  /\ hit \in BOOLEAN
  /\ runs \in 0 .. MaxRuns

Init ==
  /\ prog \in 0 .. MaxBuilds
  /\ head = 0
  /\ pkg = [f \in Files |-> None]
  /\ pc = "start"
  /\ commit_count = 0
  /\ hit = FALSE
  /\ runs = 0

------------------------------------------------------------------------------

Step(from, to) == pc = from /\ pc' = to /\ UNCHANGED <<world, hit, runs>>
Writes(f, content) == pkg' = [pkg EXCEPT ![f] = content] /\ UNCHANGED commit_count

CheckProg ==
  /\ pc = "start"
  /\ pc' = IF prog = 0 THEN "failed" ELSE "remove"
  /\ hit' = (prog = 0)
  /\ UNCHANGED <<world, pkg, commit_count, runs>>

\* Seeded fault: what an earlier run left is kept.
RemovePkgNot == Step("remove", "create") /\ UNCHANGED <<pkg, commit_count>>

\* remove_if_exists, which is content if there is no pkg/.
RemovePkg ==
  /\ Step("remove", "create")
  /\ pkg' = [f \in Files |-> None]
  /\ UNCHANGED commit_count

\* pkg/packages and three empty manifests; 0 is their content.
CreateFiles ==
  /\ Step("create", "git")
  /\ pkg' = [pkg EXCEPT !["base"] = 0, !["generate"] = 0, !["final"] = 0]
  /\ UNCHANGED commit_count

GitRevList == Step("git", "copy") /\ commit_count' = head /\ UNCHANGED pkg

CopyProg == Step("copy", "base") /\ Writes("proto", prog)

WriteBase == Step("base", "generate") /\ Writes("base", [ver |-> commit_count])

\* Seeded fault: the dependencies are looked for in target/release.
GenerateFromTarget == Step("generate", "resolve") /\ Writes("generate", prog)

\* pkgdepend generate -d proto
Generate == Step("generate", "resolve") /\ Writes("generate", pkg["proto"])

\* pkgdepend resolve
Resolve == Step("resolve", "final") /\ Writes("resolve", pkg["generate"])

\* The final manifest: base and resolved dependencies.
WriteFinal ==
  /\ Step("final", "pkgfmt")
  /\ Writes("final", [ver |-> pkg["base"].ver, deps |-> pkg["resolve"]])

\* The manifest is shown; nobody looks at the exit status of pkgfmt.
Pkgfmt == Step("pkgfmt", "repo") /\ UNCHANGED <<pkg, commit_count>>

\* pkgrepo create makes no repository where there is one.
RepoCreate ==
  /\ pc = "repo"
  /\ IF pkg["repo"] = None
     THEN pc' = "publisher" /\ pkg' = [pkg EXCEPT !["repo"] = {}]
     ELSE pc' = "failed" /\ UNCHANGED pkg
  /\ UNCHANGED <<world, commit_count, hit, runs>>

AddPublisher == Step("publisher", "send") /\ UNCHANGED <<pkg, commit_count>>

Package ==
  [ver |-> pkg["final"].ver, bin |-> pkg["proto"], deps |-> pkg["final"].deps]

\* pkgsend publish -d proto
PkgSend == Step("send", "recv") /\ Writes("repo", pkg["repo"] \cup {Package})

\* pkgrecv -a: the latest version of everything in the repository.
PkgRecv ==
  /\ Step("recv", "done")
  /\ Writes("p5p", {p \in pkg["repo"] : \A q \in pkg["repo"] : q.ver <= p.ver})

\* What a step that fails may leave behind.
LeftBehind ==
  CASE pc = "remove" ->
         {[f \in Files |-> IF f \in kept THEN pkg[f] ELSE None] : kept \in SUBSET Files}
    [] pc \in {"generate", "resolve"} -> {pkg, [pkg EXCEPT ![pc] = Partial]}
    [] pc = "send" -> {pkg, [pkg EXCEPT !["repo"] = pkg["repo"] \cup {Package}]}
    [] pc = "recv" -> {pkg, [pkg EXCEPT !["p5p"] = Partial]}
    [] OTHER -> {pkg}

\* A step fails, or the run is killed in it.  The first one only looks.
StepFails ==
  /\ pc \in Steps
  /\ pkg' \in LeftBehind
  /\ pc' = "failed"
  /\ hit' = TRUE
  /\ UNCHANGED <<world, commit_count, runs>>

\* The developer.
Build ==
  /\ prog < MaxBuilds
  /\ prog' = prog + 1
  /\ UNCHANGED <<head, pkg, pc, commit_count, hit, runs>>

Commit ==
  /\ head < MaxCommits
  /\ head' = head + 1
  /\ UNCHANGED <<prog, pkg, pc, commit_count, hit, runs>>

RunAgain ==
  /\ pc \in {"done", "failed"}
  /\ runs < MaxRuns
  /\ runs' = runs + 1
  /\ pc' = "start"
  /\ hit' = FALSE
  /\ UNCHANGED <<world, pkg, commit_count>>

CmdPackage ==
  \/ CheckProg \/ RemovePkg \/ CreateFiles \/ GitRevList \/ CopyProg \/ WriteBase
  \/ Generate \/ Resolve \/ WriteFinal \/ Pkgfmt \/ RepoCreate \/ AddPublisher
  \/ PkgSend \/ PkgRecv \/ StepFails

Next == CmdPackage \/ Build \/ Commit \/ RunAgain

Spec == Init /\ [][Next]_vars

------------------------------------------------------------------------------

\* A run that succeeds leaves an archive of one package: the version of this run,
\* with the dependencies of the very binary that is in it, whatever was built,
\* committed or left behind by other runs meanwhile.
SuccessPublishesOneBinary ==
  pc = "done" =>
    pkg["p5p"] = {[ver |-> commit_count, bin |-> pkg["proto"], deps |-> pkg["proto"]]}

\* A run fails only by what happens to it, never by what earlier runs left behind.
FailsOnlyForCause == pc = "failed" => hit

------------------------------------------------------------------------------
(***************************************************************************)
(* The inductive strengthening the proofs rest on.                         *)
(***************************************************************************)

\* What a run has made of the files below pkg/ when it comes to a step.
PipelineInv ==
  /\ pc \in {"create", "git", "copy", "base", "generate", "resolve", "final", "pkgfmt", "repo"} =>
       pkg["repo"] = None
  /\ pc \in {"generate", "resolve", "final"} => pkg["base"] = [ver |-> commit_count]
  /\ pc = "resolve" => pkg["generate"] = pkg["proto"]
  /\ pc = "final" => pkg["resolve"] = pkg["proto"]
  /\ pc \in {"pkgfmt", "repo", "publisher", "send"} =>
       pkg["final"] = [ver |-> commit_count, deps |-> pkg["proto"]]
  /\ pc \in {"publisher", "send"} => pkg["repo"] = {}
  /\ pc = "recv" =>
       pkg["repo"] = {[ver |-> commit_count, bin |-> pkg["proto"], deps |-> pkg["proto"]]}

PackagingInv == TypeOK /\ PipelineInv /\ SuccessPublishesOneBinary /\ FailsOnlyForCause

==============================================================================
