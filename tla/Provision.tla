------------------------------- MODULE Provision -------------------------------
(***************************************************************************)
(* Provisioning a box (quettabench/provision.py): pass after pass, each a  *)
(* sequence of checks and commands.  A command may fail and leave its work *)
(* undone or half done, and Ctrl-C may end a pass anywhere; the box keeps  *)
(* what was done.  Of the runs provisioned for, one has an engine bench.   *)
(***************************************************************************)
EXTENDS Integers

CONSTANT MaxPasses  \* bound: passes over one box

PassesAssumption == MaxPasses \in Nat \ {0}

VARIABLES
  asked,    \* the settings of hardware.provision and the launcher
  box,      \* what is on it
  pass,     \* the passes begun
  dry,      \* --dry-run, of this pass
  step,     \* of this pass
  missing,  \* MISSING items of this pass
  env       \* the env file: "none", or "written"

vars == <<asked, box, pass, dry, step, missing, env>>

\* A checkout at its default branch or at the commit asked for, weights half downloaded or whole.
Boxes == [vllm : BOOLEAN, image : BOOLEAN, clone : {"none", "head", "commit"}, binary : BOOLEAN,
          weights : {"none", "part", "whole"}]

\* The engine bench is built, or named (bench_bin, an executable); the weights are a dir given or a download; of the
\* bench's checkpoint and config some may be left unnamed.
Asks == [docker : BOOLEAN, vllmSpec : BOOLEAN, repo : BOOLEAN, commit : BOOLEAN, bench : {"none", "build", "bin"},
         weights : {"none", "hf", "dir"}, unnamed : 0 .. 2]

Init ==
  /\ asked \in {a \in Asks : a.bench = "none" => a.unnamed = 0}
  /\ box \in {b \in Boxes : b.clone = "none" /\ ~b.binary /\ b.weights = "none"}
  /\ pass = 1 /\ dry \in BOOLEAN
  /\ step = "load" /\ missing = 0 /\ env = "none"

\* Plan.need, and Plan.act: a dry pass does nothing, and what fails is missing.
Need == missing' = missing + 1 /\ UNCHANGED box
Act(done, failed) ==
  IF dry THEN UNCHANGED <<box, missing>>
  ELSE \/ box' = done /\ UNCHANGED missing
       \/ box' \in failed /\ missing' = missing + 1

Then(s) == step' = s /\ UNCHANGED <<asked, pass, dry, env>>

\* main: a run yaml that is refused, or a matrix, is missing; with none left the pass ends.
LoadRuns ==
  /\ step = "load"
  /\ \/ Then("images") /\ UNCHANGED <<box, missing>>
     \/ Then("images") /\ Need
     \/ Then("failed") /\ Need

\* docker_images: nothing is pulled.
CheckImages ==
  /\ step = "images"
  /\ IF asked.docker /\ ~dry /\ ~box.image THEN Need ELSE UNCHANGED <<box, missing>>
  /\ Then("vllm")

\* machine.
InstallVllm ==
  /\ step = "vllm"
  /\ CASE asked.docker \/ box.vllm -> UNCHANGED <<box, missing>>
       [] ~asked.docker /\ ~box.vllm /\ asked.vllmSpec -> Act([box EXCEPT !.vllm = TRUE], {box})
       [] OTHER -> Need
  /\ Then("nccl")

CheckNccl ==
  /\ step = "nccl"
  /\ (~asked.docker /\ Need) \/ UNCHANGED <<box, missing>>
  /\ Then("clone")

\* A clone that fails leaves nothing; only a checkout made by this pass is moved to the commit asked for.
Clone ==
  /\ step = "clone"
  /\ IF box.clone = "none" /\ asked.repo
     THEN Act([box EXCEPT !.clone = "head"], {box}) /\ Then(IF asked.commit THEN "checkout" ELSE "build")
     ELSE UNCHANGED <<box, missing>> /\ Then("build")

Checkout ==
  /\ step = "checkout"
  /\ IF box.clone = "none" /\ ~dry THEN Need ELSE Act([box EXCEPT !.clone = "commit"], {box})
  /\ Then("build")

\* Mutant: what cargo built is not looked for.
BuildUnseen ==
  /\ step = "build"
  /\ IF asked.bench # "build" \/ dry THEN UNCHANGED <<box, missing>>
     ELSE IF box.clone = "none" THEN Need
     ELSE \E cargo \in BOOLEAN : \E binary \in {box.binary, cargo \/ box.binary} :
            /\ box' = [box EXCEPT !.binary = binary]
            /\ missing' = IF cargo THEN missing ELSE missing + 1
  /\ Then("inputs")

\* bench_binary: built anew by every pass, from the checkout.  A build that fails leaves the binary before it, and one that
\* ends well may leave none of the test's name.
Build ==
  /\ step = "build"
  /\ IF asked.bench # "build" \/ dry THEN UNCHANGED <<box, missing>>
     ELSE IF box.clone = "none" THEN Need
     ELSE \E cargo \in BOOLEAN : \E binary \in {box.binary, cargo \/ box.binary} :
            /\ box' = [box EXCEPT !.binary = binary]
            /\ missing' = missing + (IF cargo THEN 0 ELSE 1) + (IF binary THEN 0 ELSE 1)
  /\ Then("inputs")

\* run: the bench's checkpoint, and the config of a moe model.
NameInputs ==
  /\ step = "inputs"
  /\ missing' = missing + asked.unnamed /\ UNCHANGED box
  /\ Then("weights")

\* run: a dir given is taken as it is, and a download with any file in its dir is taken to be there; one that fails may
\* leave some of the files.
Weights ==
  /\ step = "weights"
  /\ CASE asked.weights = "dir" -> UNCHANGED <<box, missing>>
       [] asked.weights = "none" -> Need
       [] asked.weights = "hf" /\ box.weights # "none" -> UNCHANGED <<box, missing>>
       [] OTHER -> Act([box EXCEPT !.weights = "whole"], {box, [box EXCEPT !.weights = "part"]})
  /\ Then("end")

\* The env file is written by a whole pass with nothing missing.
End ==
  /\ step = "end"
  /\ step' = IF missing > 0 THEN "failed" ELSE "done"
  /\ env' = IF missing = 0 /\ ~dry THEN "written" ELSE env
  /\ UNCHANGED <<asked, box, pass, dry, missing>>

\* Ctrl-C, with a download at work.
Interrupt ==
  /\ step \notin {"done", "failed"}
  /\ step' = "failed"
  /\ \/ UNCHANGED box
     \/ step = "weights" /\ asked.weights = "hf" /\ ~dry /\ box.weights = "none" /\ box' = [box EXCEPT !.weights = "part"]
  /\ UNCHANGED <<asked, pass, dry, missing, env>>

Again ==
  /\ step \in {"done", "failed"} /\ pass < MaxPasses
  /\ pass' = pass + 1 /\ dry' \in BOOLEAN
  /\ step' = "load" /\ missing' = 0
  /\ UNCHANGED <<asked, box, env>>

Over == step \in {"done", "failed"} /\ pass = MaxPasses /\ UNCHANGED vars

Next == LoadRuns \/ CheckImages \/ InstallVllm \/ CheckNccl \/ Clone \/ Checkout \/ Build \/ NameInputs \/ Weights
          \/ End \/ Interrupt \/ Again \/ Over

Spec == Init /\ [][Next]_vars

-------------------------------------------------------------------------------
(* Properties. *)

\* An env file stands for a box a pass found or made whole: a server's image or vLLM, the bench's binary and inputs, and
\* weights given or some of those to download (a dir given is not looked into).
WrittenIsServed ==
  env = "written" =>
    /\ IF asked.docker THEN box.image ELSE box.vllm
    /\ asked.bench = "build" => box.binary
    /\ asked.unnamed = 0
    /\ asked.weights = "hf" => box.weights # "none"
    /\ asked.weights # "none"

\* "Idempotent", and "unresolved items print MISSING, exit 1" (the module's docstring): a step that failed is done or
\* missing again in the next pass, so once the env file is written the checkout is the one asked for and the weights whole.
WrittenMeansReady ==
  env = "written" =>
    /\ asked.weights = "hf" => box.weights = "whole"
    /\ asked.repo /\ asked.commit => box.clone = "commit"
================================================================================
