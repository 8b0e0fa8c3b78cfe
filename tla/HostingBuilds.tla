---------------------------- MODULE HostingBuilds ----------------------------
(***************************************************************************)
(* From source to image: one project with one source, which is either a    *)
(* Git branch with a webhook or a ZIP archive that customers upload, the   *)
(* builds queued for it, the builders that claim them, and the upload      *)
(* service with its verified store.                                        *)
(*                                                                         *)
(* Requests that hold a lock or use what they read before their commit are *)
(* two steps.  The image a build publishes is named by what was in the     *)
(* checkout: the last push on the branch, or the bytes of the archive.     *)
(* Whether the new image may be deployed now is left open; HostingFailover *)
(* says when.                                                              *)
(***************************************************************************)
EXTENDS Naturals, Sequences

CONSTANTS
  Builders,
  Uploads,      \* threads of the upload service
  Contents,     \* archives, numbers from 1; all have the registered size
  MaxPushes,    \* bound on pushes to the branch, the one that made it included
  MaxBuilds,    \* bound on the rows in hosting_builds
  MaxRequests,  \* bound on what owners ask for
  MaxFaults     \* bound on crashes, failed steps and lost calls

VARIABLES
  kind,         \* source_type
  source,       \* the HostingSource row; sha and ticket are 0 for NULL
  registered,   \* the checksum the owner registered, 0 without one
  credential,   \* the Git credential of the source
  hook,         \* the HostingSourceWebhook row
  builds,       \* the HostingBuild rows, oldest first, and what each has checked out
  queuing,      \* a build request is between its reads and its commit
  hooking,      \* the same of a webhook delivery: the push, and whether it will queue a build
  builder,      \* what each builder is at
  head,         \* number of the last push on the branch
  delivered,    \* pushes with a HostingWebhookDelivery row
  announced,    \* history: newest push the webhook took since it was set up
  built,        \* history: newest push in a published image
  archive,      \* what is in the verified store, 0 for no file
  put,          \* what each upload thread is at
  requests, faults

buildVars == <<kind, source, registered, credential, hook, builds, queuing, hooking, builder,
               head, delivered, announced, built, archive, put, requests, faults>>

gitVars == <<credential, hook, hooking, head, delivered, announced>>
zipVars == <<archive, put>>
fixed == <<kind, registered>>

Idle == [at |-> "idle", locks |-> {}]
NoDelivery == [push |-> 0, queue |-> FALSE]

Init ==
  /\ \/ kind = "git" /\ credential \in {"none", "active"} /\ registered = 0
     \/ kind = "zip" /\ credential = "none" /\ registered \in {0} \cup Contents
  /\ source = [status |-> IF kind = "git" THEN "ready" ELSE "uploading", sha |-> registered, ticket |-> 0]
  /\ hook = [status |-> "disabled", pending |-> FALSE]
  /\ builds = <<>> /\ queuing = FALSE /\ hooking = NoDelivery
  /\ builder = [w \in Builders |-> Idle] /\ put = [u \in Uploads |-> Idle]
  /\ head = 1 /\ delivered = {1} /\ announced = 0 /\ built = 0 /\ archive = 0
  /\ requests = 0 /\ faults = 0

Request == requests < MaxRequests /\ requests' = requests + 1
Fault == faults < MaxFaults /\ faults' = faults + 1
FaultIf(b) == IF b THEN Fault ELSE UNCHANGED faults

Newer(a, b) == IF a > b THEN a ELSE b
InProgress(b) == b.status \in {"queued", "claimed", "building"}
HasActive == \E i \in DOMAIN builds : InProgress(builds[i])
NewBuild == [status |-> "queued", content |-> 0]
HookLocked == hooking # NoDelivery \/ \E w \in Builders : builder[w].at = "commit" /\ builder[w].hook

-----------------------------------------------------------------------------
(* Owners. *)

\* queue_build, with the project and its source locked.
QueueBegin ==
  /\ ~queuing /\ source.status = "ready" /\ ~HasActive /\ Len(builds) < MaxBuilds /\ Request
  /\ queuing' = TRUE
  /\ UNCHANGED <<fixed, gitVars, zipVars, source, builds, builder, built, faults>>

QueueCommit ==
  /\ queuing /\ queuing' = FALSE /\ builds' = Append(builds, NewBuild)
  /\ UNCHANGED <<fixed, gitVars, zipVars, source, builder, built, requests, faults>>

\* create_or_rotate_source_webhook and disable_source_webhook: what was pending is forgotten.
SetWebhook(status) ==
  /\ kind = "git" /\ ~HookLocked /\ Request
  /\ (status = "disabled" => hook.status = "active")
  /\ hook' = [status |-> status, pending |-> FALSE] /\ announced' = 0
  /\ UNCHANGED <<fixed, zipVars, source, credential, builds, queuing, hooking, builder, head, delivered, built, faults>>

RevokeSourceCredential ==
  /\ credential = "active" /\ Request /\ credential' = "revoked"
  /\ UNCHANGED <<fixed, zipVars, source, hook, builds, queuing, hooking, builder, head, delivered, announced, built, faults>>

\* create_upload_ticket
CreateUploadTicket ==
  /\ kind = "zip" /\ source.status \in {"uploading", "failed"} /\ Request
  /\ source' = [source EXCEPT !.status = "uploading", !.ticket = requests']
  /\ UNCHANGED <<fixed, gitVars, zipVars, builds, queuing, builder, built, faults>>

-----------------------------------------------------------------------------
(* The Git provider. *)

Push ==
  /\ kind = "git" /\ head < MaxPushes /\ head' = head + 1
  /\ UNCHANGED <<fixed, zipVars, source, credential, hook, builds, queuing, hooking, builder, delivered, announced, built, requests, faults>>

\* receive_source_webhook: deliveries come late, in any order, and a repetition changes nothing.
HookBegin(k) ==
  /\ k \in 1..head \ delivered /\ hook.status = "active" /\ ~HookLocked /\ Len(builds) < MaxBuilds
  /\ hooking' = [push |-> k, queue |-> source.status = "ready" /\ ~HasActive]
  /\ UNCHANGED <<fixed, zipVars, source, credential, hook, builds, queuing, builder, head, delivered, announced, built, requests, faults>>

\* Mutant of Remembered: a push during a build is left to that build.
RememberedNever(queue) == FALSE

\* queue_webhook_build: pending_rebuild, when a build was queued and when none was.
Remembered(queue) == ~queue

HookCommit ==
  /\ hooking # NoDelivery /\ hooking' = NoDelivery
  /\ hook' = [status |-> hook.status, pending |-> Remembered(hooking.queue)]
  /\ builds' = IF hooking.queue THEN Append(builds, NewBuild) ELSE builds
  /\ delivered' = delivered \cup {hooking.push} /\ announced' = Newer(announced, hooking.push)
  /\ UNCHANGED <<fixed, zipVars, source, credential, queuing, builder, head, built, requests, faults>>

-----------------------------------------------------------------------------
(* Builders. *)

Goes(w, r) == builder' = [builder EXCEPT ![w] = r]
Working(r, at) == [at |-> at, locks |-> {}, build |-> r.build, sha |-> r.sha]
Failing(i) == [at |-> "failing", locks |-> {}, build |-> i]

\* claim_build locks every queued row it sees, skipping those that are locked, and takes the
\* oldest; the source is read without a lock.
ClaimSelect(w) ==
  LET free == {i \in DOMAIN builds : builds[i].status = "queued" /\ \A v \in Builders : i \notin builder[v].locks} IN
  /\ builder[w] = Idle
  /\ \E oldest \in free :
       /\ \A i \in free : oldest <= i
       /\ Goes(w, [at |-> "claim", locks |-> free, build |-> oldest, sha |-> source.sha,
                   usable |-> source.status = "ready" /\ credential # "revoked"])
  /\ UNCHANGED <<fixed, gitVars, zipVars, source, builds, queuing, built, requests, faults>>

ClaimCommit(w, lost) ==
  LET r == builder[w] IN
  /\ r.at = "claim" /\ (r.usable => ~queuing) /\ FaultIf(lost)
  /\ builds' = [builds EXCEPT ![r.build].status = IF r.usable THEN "claimed" ELSE "failed"]
  /\ source' = IF r.usable THEN [source EXCEPT !.status = "building"] ELSE source
  /\ Goes(w, IF r.usable /\ ~lost THEN Working(r, "start") ELSE Idle)
  /\ UNCHANGED <<fixed, gitVars, zipVars, queuing, built, requests>>

\* process_build reports "building", checks the source out, builds, and reports the image.
ReportBuilding(w, lost) ==
  LET r == builder[w] IN
  /\ r.at = "start" /\ FaultIf(lost)
  /\ builds' = [builds EXCEPT ![r.build].status = "building"]
  /\ Goes(w, IF lost THEN Failing(r.build) ELSE Working(r, "checkout"))
  /\ UNCHANGED <<fixed, gitVars, zipVars, source, queuing, built, requests>>

\* checkout_git clones the branch.
CheckoutGit(w) ==
  LET r == builder[w] IN
  /\ r.at = "checkout" /\ kind = "git"
  /\ builds' = [builds EXCEPT ![r.build].content = head]
  /\ Goes(w, Working(r, "report"))
  /\ UNCHANGED <<fixed, gitVars, zipVars, source, queuing, built, requests, faults>>

\* materialize_verified_zip computes the checksum of the file ...
VerifyZip(w) ==
  LET r == builder[w] IN
  /\ r.at = "checkout" /\ kind = "zip"
  /\ Goes(w, IF archive # 0 /\ archive = r.sha THEN Working(r, "unpack") ELSE Failing(r.build))
  /\ UNCHANGED <<fixed, gitVars, zipVars, source, builds, queuing, built, requests, faults>>

\* ... and opens it again to unpack it.
UnpackZip(w) ==
  LET r == builder[w] IN
  /\ r.at = "unpack"
  /\ builds' = [builds EXCEPT ![r.build].content = archive]
  /\ Goes(w, IF archive = 0 THEN Failing(r.build) ELSE Working(r, "report"))
  /\ UNCHANGED <<fixed, gitVars, zipVars, source, queuing, built, requests, faults>>

\* A step of the build fails, or the new image cannot be deployed now and the report is refused.
BuildFails(w) ==
  /\ builder[w].at \in {"checkout", "unpack", "report"} /\ Fault /\ Goes(w, Failing(builder[w].build))
  /\ UNCHANGED <<fixed, gitVars, zipVars, source, builds, queuing, built, requests>>

\* report_build, succeeded.  queue_pending_webhook_rebuild sees a pending rebuild that was committed,
\* and then waits for the webhook's lock and takes it; of one not yet committed it knows nothing.
ReportSucceeded(w) ==
  LET r == builder[w]
      pending == hook.status = "active" /\ hook.pending
      others == \E i \in DOMAIN builds \ {r.build} : InProgress(builds[i])
  IN
  /\ r.at = "report" /\ (pending => ~HookLocked /\ Len(builds) < MaxBuilds)
  /\ Goes(w, [at |-> "commit", locks |-> {}, build |-> r.build, loaded |-> source.status,
              hook |-> pending, queue |-> pending /\ ~others])
  /\ UNCHANGED <<fixed, gitVars, zipVars, source, builds, queuing, built, requests, faults>>

ReportCommit(w, lost) ==
  LET r == builder[w]
      done == [builds EXCEPT ![r.build].status = "succeeded"]
  IN
  /\ r.at = "commit" /\ ~queuing /\ FaultIf(lost)
  /\ builds' = IF r.queue THEN Append(done, NewBuild) ELSE done
  /\ hook' = IF r.queue THEN [status |-> hook.status, pending |-> FALSE] ELSE hook
  /\ source' = IF r.loaded = "ready" THEN source ELSE [source EXCEPT !.status = "ready"]
  /\ built' = IF kind = "git" THEN Newer(built, builds[r.build].content) ELSE built
  /\ Goes(w, IF lost THEN Failing(r.build) ELSE Idle)
  /\ UNCHANGED <<fixed, zipVars, credential, queuing, hooking, head, delivered, announced, requests>>

\* report_build, failed; refused for a build that has ended.
ReportFailed(w, lost) ==
  LET r == builder[w]
      accepted == ~lost /\ builds[r.build].status \in {"claimed", "building"}
  IN
  /\ r.at = "failing" /\ ~queuing /\ FaultIf(lost) /\ Goes(w, Idle)
  /\ builds' = IF accepted THEN [builds EXCEPT ![r.build].status = "failed"] ELSE builds
  /\ source' = IF accepted THEN [source EXCEPT !.status = "failed"] ELSE source
  /\ UNCHANGED <<fixed, gitVars, zipVars, queuing, built, requests>>

BuilderStops(w) ==
  /\ builder[w] # Idle /\ Fault /\ Goes(w, Idle)
  /\ UNCHANGED <<fixed, gitVars, zipVars, source, builds, queuing, built, requests>>

-----------------------------------------------------------------------------
(* The upload service: Handler.do_PUT. *)

PutGoes(u, r) == put' = [put EXCEPT ![u] = r]
Cleanup(u, at) == PutGoes(u, [at |-> at, locks |-> {}])

\* authorize_upload; it leaves the ticket as it is, unless it has expired.
Authorize(u, c) ==
  /\ kind = "zip" /\ put[u] = Idle /\ source.status = "uploading" /\ source.ticket # 0
  /\ PutGoes(u, [at |-> "stream", locks |-> {}, content |-> c, expected |-> source.sha])
  /\ UNCHANGED <<fixed, gitVars, source, builds, queuing, builder, built, archive, requests, faults>>

AuthorizeExpired ==
  /\ kind = "zip" /\ source.status = "uploading" /\ source.ticket # 0 /\ Fault
  /\ source' = [source EXCEPT !.status = "failed", !.ticket = 0]
  /\ UNCHANGED <<fixed, gitVars, zipVars, builds, queuing, builder, built, requests>>

\* Mutant of Matches: the checksum is left to the control plane.
MatchesAny(r) == TRUE

Matches(r) == r.expected \in {0, r.content}

\* The archive passes the checks and os.replace moves it to the verified store, or it does not.
Promote(u) ==
  /\ put[u].at = "stream" /\ Matches(put[u])
  /\ archive' = put[u].content /\ PutGoes(u, [put[u] EXCEPT !.at = "complete"])
  /\ UNCHANGED <<fixed, gitVars, source, builds, queuing, builder, built, requests, faults>>

Reject(u) ==
  /\ put[u].at = "stream" /\ FaultIf(Matches(put[u])) /\ Cleanup(u, "fail")
  /\ UNCHANGED <<fixed, gitVars, source, builds, queuing, builder, built, archive, requests>>

\* complete_upload.  A refusal, and an answer or a request that is lost, lead to the error path.
Complete(u, reached, answered) ==
  LET c == put[u].content
      accepted == reached /\ source.status = "uploading" /\ source.ticket # 0 /\ source.sha \in {0, c}
  IN
  /\ put[u].at = "complete" /\ (answered => reached) /\ FaultIf(~answered)
  /\ source' = IF accepted THEN [status |-> "ready", sha |-> c, ticket |-> 0] ELSE source
  /\ IF accepted /\ answered THEN PutGoes(u, Idle) ELSE Cleanup(u, "unlink")
  /\ UNCHANGED <<fixed, gitVars, builds, queuing, builder, built, archive, requests>>

Unlink(u) ==
  /\ put[u].at = "unlink" /\ archive' = 0 /\ Cleanup(u, "fail")
  /\ UNCHANGED <<fixed, gitVars, source, builds, queuing, builder, built, requests, faults>>

\* fail_upload, whose own failure is ignored.
Fail(u, lost) ==
  /\ put[u].at = "fail" /\ FaultIf(lost) /\ PutGoes(u, Idle)
  /\ source' = IF lost \/ source.status = "ready" THEN source ELSE [source EXCEPT !.status = "failed", !.ticket = 0]
  /\ UNCHANGED <<fixed, gitVars, builds, queuing, builder, built, archive, requests>>

UploadServiceStops ==
  /\ \E u \in Uploads : put[u] # Idle
  /\ Fault /\ put' = [u \in Uploads |-> Idle]
  /\ UNCHANGED <<fixed, gitVars, source, builds, queuing, builder, built, archive, requests>>

-----------------------------------------------------------------------------
BuilderStep(w) ==
  \/ ClaimSelect(w) \/ CheckoutGit(w) \/ VerifyZip(w) \/ UnpackZip(w) \/ BuildFails(w)
  \/ ReportSucceeded(w) \/ BuilderStops(w)
  \/ \E lost \in BOOLEAN : ClaimCommit(w, lost) \/ ReportBuilding(w, lost) \/ ReportCommit(w, lost) \/ ReportFailed(w, lost)

UploadStep(u) ==
  \/ \E c \in Contents : Authorize(u, c)
  \/ Promote(u) \/ Reject(u) \/ Unlink(u)
  \/ \E reached, answered \in BOOLEAN : Complete(u, reached, answered)
  \/ \E lost \in BOOLEAN : Fail(u, lost)

Next ==
  \/ QueueBegin \/ QueueCommit \/ RevokeSourceCredential \/ CreateUploadTicket
  \/ \E status \in {"active", "disabled"} : SetWebhook(status)
  \/ Push \/ HookCommit \/ \E k \in 2..MaxPushes : HookBegin(k)
  \/ \E w \in Builders : BuilderStep(w)
  \/ AuthorizeExpired \/ UploadServiceStops \/ \E u \in Uploads : UploadStep(u)

Spec == Init /\ [][Next]_buildVars

-----------------------------------------------------------------------------
(* Properties. *)

\* No push that the webhook took is forgotten, whichever way deliveries, build requests, claims and
\* reports overlap: it is in an image, it is remembered as pending, or a build is under way whose
\* checkout has it or is still to come.  After a failed build, or without its credential, the
\* source is not built again (queue_webhook_build, queue_pending_webhook_rebuild, report_build).
NoPushForgotten ==
  announced > built =>
    \/ hook.pending \/ source.status = "failed" \/ credential = "revoked"
    \/ \E i \in DOMAIN builds : InProgress(builds[i]) /\ builds[i].content \notin 1..(announced - 1)

\* When the owner registered a checksum, no build gets to see other bytes, also when uploads with
\* one ticket overlap, are refused or die, while builders verify and unpack the archive (do_PUT,
\* complete_upload, materialize_verified_zip).
OnlyRegisteredBuilt ==
  kind = "zip" /\ registered # 0 => \A i \in DOMAIN builds : builds[i].content \in {0, registered}
=============================================================================
