------------------------------ MODULE Deployment ------------------------------
(***************************************************************************)
(* The management WebSocket (ws_server.py): packages staged from GitLab           *)
(* (gitlab_stage.py), receipts that allow one build and one deployment of what    *)
(* was staged, the deployment itself, and the contract it publishes for the       *)
(* virtual flight controller (vehicle_profile.py).  The deployed core is told to   *)
(* the runtime of the Spring endpoint.                                        *)
(*                                                                         *)
(* The event loop of the WebSocket is blocked during a command, so one command    *)
(* runs at a time; the other endpoint and the processes go on between its steps.  *)
(* A package is known by its version and the verdict of its validation             *)
(* (model_package.py).                                                        *)
(* The deployment mode is development, and the virtual flight controller is      *)
(* enabled (virtual_quad_fc.py).                                               *)
(*                                                                         *)
(* A definition introduced by "Fault:" is the definition after it with a   *)
(* plausible error in it; nothing uses it.                                 *)
(***************************************************************************)
EXTENDS ModelRuntime

CONSTANTS
  Versions,      \* contents a package directory may have
  Receipts,      \* gitlab_stage_receipt ids
  MaxChanges,    \* releases and changes on disk
  MaxCommands2   \* build and deploy commands

ASSUME DeploymentAssumption == MaxChanges \in Nat /\ MaxCommands2 \in Nat

VARIABLES
  release,    \* the content of the release in GitLab
  package,    \* the package directory in the controlled root
  receipts,   \* the receipt files, and how often each was used
  command,    \* _build_or_deploy
  active,     \* ACTIVE_CORE, the package validated for it, whether its deployment was
              \* answered with a failed stage; the cores left by earlier servers
  contract    \* the published contract, the one the flight controller has, and whence

deploymentVars == <<release, package, receipts, command, active, contract>>

Operations == {"build", "deploy"}
NoVersion == "none"

\* A content with its verdict: a checksum is wrong, the contract is wrong, a V2
\* contract, a V3 contract, a V3 contract with a profile for the flight controller.
Verdicts == {"broken", "bad", "v2", "v3", "flown"}
Contents == [version : Versions, verdict : Verdicts]
NoContent == [version |-> NoVersion, verdict |-> "broken"]
Digests == Versions \cup {NoVersion}

\* What validate_package returned, what was copied, and whether the directory changed
\* between the two.
NoCommand == [pc |-> "idle", operation |-> "build", digest |-> NoVersion, receipt |-> FALSE,
              valid |-> NoContent, content |-> NoContent, moved |-> FALSE]
NoCore == [proc |-> NoProc, valid |-> NoContent, failed |-> FALSE, left |-> {}]
NoReceipt == [digest |-> NoVersion, expired |-> FALSE, used |-> {}, ran |-> [o \in Operations |-> 0]]

DeploymentTypeOK ==
  /\ release \in Contents
  /\ package.content \in Contents \cup {NoContent} /\ package.changes \in 0..MaxChanges
  /\ \A r \in Receipts : /\ receipts[r].digest \in Digests
                         /\ receipts[r].used \subseteq Operations
                         /\ receipts[r].digest = NoVersion => receipts[r] = NoReceipt
  /\ command.run.pc \in {"idle", "validate", "stop", "copy", "build", "start", "register", "publish"}
  /\ command.run.receipt => \E r \in Receipts : /\ receipts[r].digest = command.run.digest
                                              /\ command.run.operation \in receipts[r].used
  /\ command.run.digest \in Digests /\ command.count \in 0..MaxCommands2
  /\ active \in [proc : Procs \cup {NoProc}, valid : Contents \cup {NoContent},
                 failed : BOOLEAN, left : SUBSET Procs]
  /\ active.proc = NoProc <=> active.valid = NoContent
  /\ contract \in [file : Contents \cup {NoContent}, controller : Digests,
                   path : {"none", "active", "other"}]

DeploymentInit ==
  /\ release \in Contents
  /\ package = [content |-> NoContent, changes |-> 0]
  /\ receipts = [r \in Receipts |-> NoReceipt]
  /\ command = [run |-> NoCommand, count |-> 0]
  /\ active = NoCore
  /\ contract = [file |-> NoContent, controller |-> NoVersion, path |-> "none"]

run == command.run
Idle == run.pc = "idle"
Goes(next) == command' = [command EXCEPT !.run = next]
Fail == Goes(NoCommand)

-----------------------------------------------------------------------------
(* Packages and receipts.                                                  *)

\* The release changes in GitLab, or somebody changes the directory, also after it
\* was validated and before it is copied: nothing looks again.
ReleaseChanges ==
  /\ package.changes < MaxChanges
  /\ release' \in Contents \ {release}
  /\ package' = [package EXCEPT !.changes = @ + 1]
  /\ UNCHANGED <<receipts, command, active, contract>>

DirectoryChanges ==
  /\ package.changes < MaxChanges /\ package.content # NoContent
  /\ \E content \in Contents \ {package.content} :
       package' = [content |-> content, changes |-> package.changes + 1]
  /\ Goes([run EXCEPT !.moved = @ \/ run.pc \in {"stop", "copy"}])
  /\ UNCHANGED <<release, receipts, active, contract>>

\* validate_contract; a contract of version 2 has no extensions to validate.
GoodContract(content) == content.verdict \in {"v2", "v3", "flown"}

\* profile_from_contract accepts it.
HasProfile(content) == content.verdict = "flown"

\* Fault: the digest that was asked for is not compared.
ValidAsItIs(content, digest) == content.verdict # "broken" /\ GoodContract(content)

\* validate_package: every file has its checksum, the digest is the expected one and
\* the contract is good.
Valid(content, digest) == content.verdict # "broken" /\ content.version = digest /\ GoodContract(content)

\* stage_release: a new package is validated and published under its name, which
\* is never written again; a published one is validated again.
Staged == IF package.content # NoContent THEN package.content ELSE release

\* _create_gitlab_stage_receipt for what was staged.
Stage(r) ==
  /\ Idle /\ receipts[r] = NoReceipt
  /\ Valid(Staged, Staged.version)
  /\ package' = [package EXCEPT !.content = Staged]
  /\ receipts' = [receipts EXCEPT ![r].digest = Staged.version]
  /\ UNCHANGED <<release, command, active, contract>>

\* time passes expires_at_unix.
Expires(r) ==
  /\ receipts[r].digest # NoVersion /\ ~receipts[r].expired
  /\ receipts' = [receipts EXCEPT ![r].expired = TRUE]
  /\ UNCHANGED <<release, package, command, active, contract>>

\* Fault: the operation is allowed, and the receipt is not written.
UsedInMemory(r, operation) == [receipts[r] EXCEPT !.ran[operation] = @ + 1]

\* The receipt is written with the operation before the operation begins.
Used(r, operation) == [receipts[r] EXCEPT !.used = @ \cup {operation}, !.ran[operation] = @ + 1]

\* _hydrate_gitlab_stage_receipt: the digest comes from the receipt.
Hydrate(r, operation) ==
  /\ Idle /\ command.count < MaxCommands2
  /\ receipts[r].digest # NoVersion /\ ~receipts[r].expired /\ operation \notin receipts[r].used
  /\ receipts' = [receipts EXCEPT ![r] = Used(r, operation)]
  /\ command' = [count |-> command.count + 1,
                 run |-> [NoCommand EXCEPT !.pc = "validate", !.operation = operation,
                                           !.digest = receipts[r].digest, !.receipt = TRUE]]
  /\ UNCHANGED <<release, package, active, contract>>

\* A command with the digest and the path of a package, without a receipt.
Request(operation) ==
  /\ Idle /\ command.count < MaxCommands2 /\ package.content # NoContent
  /\ \E digest \in Versions :
       command' = [count |-> command.count + 1,
                   run |-> [NoCommand EXCEPT !.pc = "validate", !.operation = operation, !.digest = digest]]
  /\ UNCHANGED <<release, package, receipts, active, contract>>

-----------------------------------------------------------------------------
(* _build_or_deploy.                                                       *)

Validates ==
  /\ run.pc = "validate"
  /\ IF Valid(package.content, run.digest)
     THEN Goes([run EXCEPT !.pc = IF run.operation = "deploy" THEN "stop" ELSE "copy",
                           !.valid = package.content])
     ELSE Fail
  /\ UNCHANGED <<release, package, receipts, active, contract>>

\* Fault: the core that runs is left alone.
StoppedNone == procs

\* The core deployed before is terminated if it is alive.
Stopped == IF active.proc \in Live THEN [procs EXCEPT ![active.proc] = "gone"] ELSE procs

StopsActive ==
  /\ run.pc = "stop"
  /\ procs' = Stopped
  /\ Goes([run EXCEPT !.pc = "copy"])
  /\ UNCHANGED <<release, package, receipts, active, contract, samples, runtime, job, submitted, clients, requests>>

\* copytree, of the directory as it now is.
Copies ==
  /\ run.pc = "copy"
  /\ Goes([run EXCEPT !.pc = "build", !.content = package.content]) \/ Fail
  /\ UNCHANGED <<release, package, receipts, active, contract>>

\* MATLAB and GCC succeed or not; a build is then READY.
Builds ==
  /\ run.pc = "build"
  /\ \/ Goes(IF run.operation = "deploy" THEN [run EXCEPT !.pc = "start"] ELSE NoCommand)
     \/ Fail
  /\ UNCHANGED <<release, package, receipts, active, contract>>

\* dev_runner.start, which may raise.
StartsActive ==
  /\ run.pc = "start"
  /\ \/ /\ \E p \in Unborn : /\ \A q \in Unborn : p <= q
                             /\ procs' = [procs EXCEPT ![p] = "starting"]
                             /\ active' = [active EXCEPT !.proc = p, !.valid = run.valid,
                                                         !.failed = FALSE]
        /\ Goes([run EXCEPT !.pc = "register"])
     \/ Fail /\ UNCHANGED <<procs, active>>
  /\ UNCHANGED <<release, package, receipts, contract, samples, runtime, job, submitted, clients, requests>>

FailedStage(failed) == active' = [active EXCEPT !.failed = failed]

\* A core that has ended already is a failure; register_deployed otherwise takes
\* _lock, and not _operation_lock.
Registers ==
  /\ run.pc = "register"
  /\ IF active.proc \notin Live
     THEN Fail /\ FailedStage(TRUE) /\ UNCHANGED runtime
     ELSE /\ runtime' = [state |-> "RUNNING", proc |-> active.proc, executable |-> TRUE]
          /\ Goes([run EXCEPT !.pc = "publish"]) /\ UNCHANGED active
  /\ UNCHANGED <<release, package, receipts, contract, procs, samples, job, submitted, clients, requests>>

\* Fault: the file is written, the flight controller keeps what it has.
FollowsNot(content) == [contract EXCEPT !.file = content]

\* activate_deployed_contract stops the scenario and loads the published file: a
\* contract without a profile is refused.
Follows(content) ==
  IF HasProfile(content) THEN [file |-> content, controller |-> content.version, path |-> "active"]
  ELSE [contract EXCEPT !.file = content]

\* What is done with the contract of the package as it was validated; a V2 contract
\* is not published.  An error on the way, or in writing the evidence, names a
\* failed stage and undoes nothing: the core runs.
Publish ==
  /\ run.pc = "publish"
  /\ LET steps == IF run.valid.verdict = "v2" THEN {contract}
                  ELSE {contract, [contract EXCEPT !.file = run.valid], Follows(run.valid)}
         last == IF run.valid.verdict = "v2" THEN contract ELSE Follows(run.valid)
     IN \/ contract' \in steps /\ FailedStage(TRUE)
        \/ contract' = last /\ FailedStage(FALSE)
  /\ Fail
  /\ UNCHANGED <<release, package, receipts>>

\* reload_contract by virtual_fc_reload_contract, with the scenario stopped: the
\* published file again, or any file the command names.
ReloadContract ==
  /\ Idle
  /\ \/ HasProfile(contract.file) /\ contract' = Follows(contract.file)
     \/ \E v \in Versions : contract' = [contract EXCEPT !.controller = v, !.path = "other"]
  /\ UNCHANGED <<release, package, receipts, command, active>>

\* The server ends and starts again: what is on disk stays, and so do the cores it
\* started, which it knows no more.  With a published contract that has no profile
\* the flight controller raises, and the server does not come back.
Restarts ==
  /\ contract.file = NoContent \/ HasProfile(contract.file)
  /\ Fail
  /\ active' = [NoCore EXCEPT !.left = Live]
  /\ contract' = [contract EXCEPT
       !.controller = IF contract.file = NoContent THEN NoVersion ELSE contract.file.version,
       !.path = IF contract.file = NoContent THEN "none" ELSE "active"]
  /\ runtime' = [state |-> "STOPPED", proc |-> NoProc, executable |-> TRUE]
  /\ ResetForNewRun
  /\ job' = "none" /\ submitted' = <<>>
  /\ clients' = [c \in Clients |-> "none"]
  /\ requests' = [requests EXCEPT !.known = <<>>]
  /\ UNCHANGED <<release, package, receipts, procs>>

-----------------------------------------------------------------------------

\* Steps that touch neither the processes nor the runtime.
Apart ==
  \/ ReleaseChanges \/ DirectoryChanges
  \/ \E r \in Receipts : Stage(r) \/ Expires(r) \/ \E o \in Operations : Hydrate(r, o)
  \/ \E o \in Operations : Request(o)
  \/ Validates \/ Copies \/ Builds \/ Publish \/ ReloadContract

DeploymentNext == (Apart /\ UNCHANGED runtimeVars) \/ StopsActive \/ StartsActive \/ Registers \/ Restarts

\* The management endpoint alone: nobody starts or stops a core through the other one.
ManagementNext == (CoreStep /\ UNCHANGED deploymentVars) \/ DeploymentNext

ManagementSpec ==
  RuntimeInit /\ DeploymentInit /\ [][ManagementNext]_<<runtimeVars, deploymentVars>>

\* The two endpoints together.
DeploymentSpec ==
  RuntimeInit /\ DeploymentInit
    /\ [][\/ RuntimeNext /\ UNCHANGED deploymentVars
          \/ DeploymentNext]_<<runtimeVars, deploymentVars>>

-----------------------------------------------------------------------------

\* A receipt allows each operation once, whatever fails and whenever the server
\* starts again.
ReceiptOnce == \A r \in Receipts, o \in Operations : receipts[r].ran[o] <= 1

\* A core is started only for a package that was validated and is what the receipt
\* was given for or the digest asked for, and is built from it, unless the directory
\* was changed after it was validated and before it was copied.
DeployedAsStaged ==
  [][(active'.proc # active.proc /\ active'.proc # NoProc) =>
        /\ run.valid.verdict \notin {"broken", "bad"} /\ run.valid.version = run.digest
        /\ run.content = run.valid \/ run.moved]_<<runtimeVars, deploymentVars>>

\* While a deployed core is alive, no command runs and its deployment was answered
\* without a failed stage, the published contract is the one it was validated with,
\* and the flight controller that loads what is published has it if it can fly it.
ContractOfCore ==
  (Idle /\ active.proc \in Live /\ ~active.failed) =>
    /\ active.valid.verdict # "v2" => contract.file = active.valid
    /\ HasProfile(active.valid) /\ contract.path = "active" =>
         contract.controller = active.valid.version

\* At most one process of the model is alive that this server started.
OneOfServer == Cardinality(Live \ active.left) <= 1

\* One process of the server's, one operation at a time, one use of a receipt and one
\* contract for core and controller, over endpoints, failures and restarts.
DeploymentSound ==
  /\ RuntimeTypeOK /\ DeploymentTypeOK
  /\ OneOfServer /\ OneOperation
  /\ ReceiptOnce /\ ContractOfCore

\* A core runs what was validated and asked for, configured before it starts, and
\* an action that is carried out settles.
DeploymentInOrder == ConfiguredFirst /\ DeployedAsStaged /\ Settles
=============================================================================
