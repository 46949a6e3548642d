---------------------------- MODULE PackagingProofs ----------------------------
(***************************************************************************)
(* Proofs about Packaging for any number of builds, commits and runs.      *)
(***************************************************************************)
EXTENDS Packaging, TLAPS

\* Nothing is packaged at the start.
LEMMA PackagingInit == Init => PackagingInv
<1> SUFFICES ASSUME Init PROVE PackagingInv
  OBVIOUS
<1>1. TypeOK
  <2>1. DOMAIN pkg = Files
    BY DEF Init
  <2>2. prog \in 0 .. MaxBuilds /\ head \in 0 .. MaxCommits /\ commit_count \in 0 .. head
    BY PackagingAssumption DEF Init
  <2>3. runs \in 0 .. MaxRuns
    BY PackagingAssumption DEF Init
  <2>4. pc \in Steps /\ hit \in BOOLEAN
    BY DEF Init, Steps
  <2>5. QED
    BY <2>1, <2>2, <2>3, <2>4 DEF TypeOK
<1>2. PipelineInv /\ SuccessPublishesOneBinary /\ FailsOnlyForCause
  BY DEF Init, PipelineInv, SuccessPublishesOneBinary, FailsOnlyForCause
<1>3. QED
  BY <1>1, <1>2 DEF PackagingInv

\* Whatever a step that fails leaves behind, the files are the same ones.
LEMMA LeftBehindType ==
  ASSUME TypeOK, pc \in Steps, NEW left \in LeftBehind
  PROVE  DOMAIN left = Files
<1>1. DOMAIN pkg = Files
  BY DEF TypeOK
<1>2. CASE pc = "remove"
  <2>1. PICK kept \in SUBSET Files : left = [f \in Files |-> IF f \in kept THEN pkg[f] ELSE None]
    BY <1>2 DEF LeftBehind
  <2>2. QED
    BY <2>1
<1>3. CASE pc # "remove"
  <2>1. left = pkg \/ \E content : \E f \in Files : left = [pkg EXCEPT ![f] = content]
    BY <1>3 DEF LeftBehind, Files
  <2>2. QED
    BY <1>1, <2>1
<1>4. QED
  BY <1>2, <1>3

\* Every step of a run, of the developer and of the clock keeps the invariant.
LEMMA PackagingStep == PackagingInv /\ [Next]_vars => PackagingInv'
<1> SUFFICES ASSUME PackagingInv, [Next]_vars PROVE PackagingInv'
  OBVIOUS
<1>1. /\ TypeOK /\ PipelineInv /\ SuccessPublishesOneBinary /\ FailsOnlyForCause
      /\ DOMAIN pkg = Files /\ prog \in Nat /\ head \in Nat /\ commit_count \in 0 .. head
      /\ commit_count \in Nat /\ runs \in Nat
  BY PackagingAssumption DEF PackagingInv, TypeOK
<1>2. \A content : \A f, g \in Files :
        /\ [pkg EXCEPT ![f] = content][g] = IF f = g THEN content ELSE pkg[g]
        /\ DOMAIN [pkg EXCEPT ![f] = content] = Files
  BY <1>1
<1>3. Files = {"proto", "base", "generate", "resolve", "final", "repo", "p5p"}
  BY DEF Files
<1> DEFINE Sound(p, c, at, h) ==
      /\ at \in {"create", "git", "copy", "base", "generate", "resolve", "final", "pkgfmt",
                 "repo"} => p["repo"] = None
      /\ at \in {"generate", "resolve", "final"} => p["base"] = [ver |-> c]
      /\ at = "resolve" => p["generate"] = p["proto"]
      /\ at = "final" => p["resolve"] = p["proto"]
      /\ at \in {"pkgfmt", "repo", "publisher", "send"} =>
           p["final"] = [ver |-> c, deps |-> p["proto"]]
      /\ at \in {"publisher", "send"} => p["repo"] = {}
      /\ at = "recv" => p["repo"] = {[ver |-> c, bin |-> p["proto"], deps |-> p["proto"]]}
      /\ at = "done" => p["p5p"] = {[ver |-> c, bin |-> p["proto"], deps |-> p["proto"]]}
      /\ at = "failed" => h
<1>4. Sound(pkg, commit_count, pc, hit)
  BY <1>1 DEF PipelineInv, SuccessPublishesOneBinary, FailsOnlyForCause
<1>5. SUFFICES TypeOK' /\ Sound(pkg', commit_count', pc', hit')
  BY DEF PackagingInv, PipelineInv, SuccessPublishesOneBinary, FailsOnlyForCause
<1>6. CASE CheckProg \/ Commit \/ Build \/ RunAgain \/ UNCHANGED vars
  <2>1. UNCHANGED <<pkg, commit_count>>
    BY <1>6 DEF CheckProg, Commit, Build, RunAgain, vars
  <2>2. TypeOK'
    <3>1. DOMAIN pkg' = Files
      BY <1>1, <2>1
    <3>2. prog' \in 0 .. MaxBuilds /\ head' \in 0 .. MaxCommits /\ commit_count' \in 0 .. head'
      BY <1>1, <1>6, <2>1, PackagingAssumption
         DEF CheckProg, Commit, Build, RunAgain, vars, world, TypeOK
    <3>3. runs' \in 0 .. MaxRuns
      BY <1>1, <1>6, PackagingAssumption
         DEF CheckProg, Commit, Build, RunAgain, vars, world, TypeOK
    <3>4. pc' \in Steps \cup {"done", "failed"} /\ hit' \in BOOLEAN
      BY <1>1, <1>6 DEF CheckProg, Commit, Build, RunAgain, vars, TypeOK, Steps
    <3>5. QED
      BY <3>1, <3>2, <3>3, <3>4 DEF TypeOK
  <2>3. (pc' = pc /\ hit' = hit) \/ pc' = "start" \/ pc' = "remove" \/ (pc' = "failed" /\ hit')
    BY <1>6 DEF CheckProg, Commit, Build, RunAgain, vars, world
  <2>4. QED
    BY <1>4, <2>1, <2>2, <2>3
<1>7. CASE RemovePkg
  BY <1>1, <1>3, <1>7 DEF RemovePkg, Step, world, TypeOK, Steps
<1>8. ASSUME NEW to, pc' = to, UNCHANGED <<world, hit, runs>>, to \in Steps \cup {"done"},
             DOMAIN pkg' = Files, commit_count' \in 0 .. head,
             Sound(pkg', commit_count', to, hit)
      PROVE  TypeOK' /\ Sound(pkg', commit_count', pc', hit')
  BY <1>1, <1>8 DEF TypeOK, world
<1>9. CASE CreateFiles
  <2>1. pc = "create" /\ pc' = "git" /\ UNCHANGED <<world, hit, runs, commit_count>>
    BY <1>9 DEF CreateFiles, Step
  <2>2. pkg'["repo"] = None /\ DOMAIN pkg' = Files
    BY <1>1, <1>3, <1>4, <1>9, <2>1 DEF CreateFiles
  <2>3. QED
    BY <1>1, <1>8, <2>1, <2>2 DEF Steps
<1>10. CASE GitRevList \/ Pkgfmt \/ AddPublisher
  <2>1. /\ UNCHANGED <<world, hit, runs, pkg>> /\ commit_count' \in {commit_count, head}
        /\ \/ pc = "git" /\ pc' = "copy"
           \/ pc = "pkgfmt" /\ pc' = "repo" /\ commit_count' = commit_count
           \/ pc = "publisher" /\ pc' = "send" /\ commit_count' = commit_count
    BY <1>10 DEF GitRevList, Pkgfmt, AddPublisher, Step
  <2>2. commit_count' \in 0 .. head
    BY <1>1, <2>1
  <2>3. QED
    BY <1>1, <1>4, <1>8, <2>1, <2>2 DEF Steps
<1>11. CASE CopyProg
  <2>1. /\ pc = "copy" /\ pc' = "base" /\ UNCHANGED <<world, hit, runs, commit_count>>
        /\ pkg' = [pkg EXCEPT !["proto"] = prog]
    BY <1>11 DEF CopyProg, Step, Writes
  <2>2. pkg'["repo"] = None /\ DOMAIN pkg' = Files
    BY <1>2, <1>3, <1>4, <2>1
  <2>3. QED
    BY <1>1, <1>8, <2>1, <2>2 DEF Steps
<1>12. CASE WriteBase
  <2>1. /\ pc = "base" /\ pc' = "generate" /\ UNCHANGED <<world, hit, runs, commit_count>>
        /\ pkg' = [pkg EXCEPT !["base"] = [ver |-> commit_count]]
    BY <1>12 DEF WriteBase, Step, Writes
  <2>2. pkg'["repo"] = None /\ DOMAIN pkg' = Files /\ pkg'["base"] = [ver |-> commit_count]
    BY <1>2, <1>3, <1>4, <2>1
  <2>3. QED
    BY <1>1, <1>8, <2>1, <2>2 DEF Steps
<1>13. CASE Generate
  <2>1. /\ pc = "generate" /\ pc' = "resolve" /\ UNCHANGED <<world, hit, runs, commit_count>>
        /\ pkg' = [pkg EXCEPT !["generate"] = pkg["proto"]]
    BY <1>13 DEF Generate, Step, Writes
  <2>2. /\ DOMAIN pkg' = Files /\ pkg'["generate"] = pkg["proto"]
        /\ \A f \in Files : f # "generate" => pkg'[f] = pkg[f]
    BY <1>2, <1>3, <2>1
  <2>3. QED
    BY <1>1, <1>3, <1>4, <1>8, <2>1, <2>2 DEF Steps
<1>14. CASE Resolve
  <2>1. /\ pc = "resolve" /\ pc' = "final" /\ UNCHANGED <<world, hit, runs, commit_count>>
        /\ pkg' = [pkg EXCEPT !["resolve"] = pkg["generate"]]
    BY <1>14 DEF Resolve, Step, Writes
  <2>2. /\ DOMAIN pkg' = Files /\ pkg'["resolve"] = pkg["generate"]
        /\ \A f \in Files : f # "resolve" => pkg'[f] = pkg[f]
    BY <1>2, <1>3, <2>1
  <2>3. QED
    BY <1>1, <1>3, <1>4, <1>8, <2>1, <2>2 DEF Steps
<1>15. CASE WriteFinal
  <2>1. /\ pc = "final" /\ pc' = "pkgfmt" /\ UNCHANGED <<world, hit, runs, commit_count>>
        /\ pkg' = [pkg EXCEPT !["final"] = [ver |-> pkg["base"].ver, deps |-> pkg["resolve"]]]
    BY <1>15 DEF WriteFinal, Step, Writes
  <2>2. pkg["base"].ver = commit_count /\ pkg["resolve"] = pkg["proto"]
    BY <1>4, <2>1
  <2>3. /\ DOMAIN pkg' = Files
        /\ pkg'["final"] = [ver |-> commit_count, deps |-> pkg["proto"]]
        /\ \A f \in Files : f # "final" => pkg'[f] = pkg[f]
    BY <1>2, <1>3, <2>1, <2>2
  <2>4. QED
    BY <1>1, <1>3, <1>4, <1>8, <2>1, <2>3 DEF Steps
<1>16. CASE RepoCreate
  <2>1. /\ pc = "repo" /\ pc' = "publisher" /\ UNCHANGED <<world, hit, runs, commit_count>>
        /\ pkg' = [pkg EXCEPT !["repo"] = {}]
    BY <1>4, <1>16 DEF RepoCreate
  <2>2. /\ DOMAIN pkg' = Files /\ pkg'["repo"] = {}
        /\ \A f \in Files : f # "repo" => pkg'[f] = pkg[f]
    BY <1>2, <1>3, <2>1
  <2>3. QED
    BY <1>1, <1>3, <1>4, <1>8, <2>1, <2>2 DEF Steps
<1>17. CASE PkgSend
  <2>1. /\ pc = "send" /\ pc' = "recv" /\ UNCHANGED <<world, hit, runs, commit_count>>
        /\ pkg' = [pkg EXCEPT !["repo"] = pkg["repo"] \cup {Package}]
    BY <1>17 DEF PkgSend, Step, Writes
  <2>2. pkg["repo"] \cup {Package}
          = {[ver |-> commit_count, bin |-> pkg["proto"], deps |-> pkg["proto"]]}
    BY <1>4, <2>1 DEF Package
  <2>3. /\ DOMAIN pkg' = Files
        /\ pkg'["repo"] = {[ver |-> commit_count, bin |-> pkg["proto"], deps |-> pkg["proto"]]}
        /\ pkg'["proto"] = pkg["proto"]
    BY <1>2, <1>3, <2>1, <2>2
  <2>4. QED
    BY <1>1, <1>8, <2>1, <2>3 DEF Steps
<1>18. CASE PkgRecv
  <2> DEFINE one == [ver |-> commit_count, bin |-> pkg["proto"], deps |-> pkg["proto"]]
  <2>1. /\ pc = "recv" /\ pc' = "done" /\ UNCHANGED <<world, hit, runs, commit_count>>
        /\ pkg' = [pkg EXCEPT !["p5p"] = {p \in pkg["repo"] : \A q \in pkg["repo"] : q.ver <= p.ver}]
    BY <1>18 DEF PkgRecv, Step, Writes
  <2>2. pkg["repo"] = {one} /\ one.ver <= one.ver
    BY <1>1, <1>4, <2>1
  <2> HIDE DEF one
  <2>3. {p \in pkg["repo"] : \A q \in pkg["repo"] : q.ver <= p.ver} = {one}
    BY <2>2
  <2>4. DOMAIN pkg' = Files /\ pkg'["p5p"] = {one} /\ pkg'["proto"] = pkg["proto"]
    BY <1>2, <1>3, <2>1, <2>3
  <2>5. QED
    BY <1>1, <1>8, <2>1, <2>4 DEF Steps, one
<1>19. CASE StepFails
  <2>1. /\ pc' = "failed" /\ hit' = TRUE /\ UNCHANGED <<world, commit_count, runs>>
        /\ DOMAIN pkg' = Files
    BY <1>1, <1>19, LeftBehindType DEF StepFails
  <2>2. QED
    BY <1>1, <2>1 DEF TypeOK, world
<1>20. QED
  BY <1>6, <1>7, <1>9, <1>10, <1>11, <1>12, <1>13, <1>14, <1>15, <1>16, <1>17, <1>18, <1>19
     DEF Next, CmdPackage

\* The inductive invariant holds through any number of failed and repeated runs.
THEOREM PackagingInvariant == Spec => []PackagingInv
BY PackagingInit, PackagingStep, PTL DEF Spec

\* A run that succeeds has archived one binary with its own dependencies under the
\* version of this run.
THEOREM OneBinaryTheorem == Spec => []SuccessPublishesOneBinary
<1>1. PackagingInv => SuccessPublishesOneBinary
  BY DEF PackagingInv
<1>2. QED
  BY PackagingInvariant, <1>1, PTL

\* No run fails because of what an earlier one left behind.
THEOREM CleanRunTheorem == Spec => []FailsOnlyForCause
<1>1. PackagingInv => FailsOnlyForCause
  BY DEF PackagingInv
<1>2. QED
  BY PackagingInvariant, <1>1, PTL

==============================================================================
