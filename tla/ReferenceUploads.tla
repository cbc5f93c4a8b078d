-------------------------- MODULE ReferenceUploads --------------------------
(***************************************************************************)
(* The reference image of one generate_model operation                     *)
(* (src/packages/core/src/tools/reference-uploads.ts and _generateModel of *)
(* tools/index.ts): Roblox mints a new asset for every upload, so the      *)
(* retries of an operation, concurrent ones too, share one upload, and an  *)
(* upload that may have created something is resumed or refused, never     *)
(* repeated.                                                               *)
(*                                                                         *)
(* Roblox decides what becomes of a create request when it likes; the      *)
(* server knows only what its answers say (opencloud-client.ts,            *)
(* roblox-cookie-client.ts).  Create requests are numbered; 0 is none.     *)
(***************************************************************************)
EXTENDS Integers, FiniteSets

CONSTANTS
  UploadCalls,      \* calls of generate_model with the operation's id
  UploadPeers,      \* peers such a call may be routed to
  MaxUploads        \* bound: create requests of a behaviour

ASSUME UploadsAssumption == MaxUploads \in Nat

VARIABLES
  upload,           \* the UploadRecord, or NoUpload
  calls,            \* where each call is, and the peer it was routed to
  remote,           \* what Roblox made of each create request
  recorded        \* the bridge's record of the id: none, or its peer

uploadVars == <<upload, calls, remote, recorded>>

CreateRequests == 1 .. MaxUploads
NoUpload == [stage |-> "none"]

\* doing: what the promise in inFlight does; image: imageAssetId, by its create
\* request; checkpoint: remoteOperation and createdAssetId; first and request
\* are not in the program: the record's first create request, and the last one.
Uploads ==
  [stage : {"uploading", "uploaded", "dispatched", "upload_failed", "upload_unknown"},
   phase : {"local", "sending", "accepted", "created"},
   doing : {"nothing", "preparing", "sending", "polling", "resolving"},
   image : CreateRequests \cup {0},
   checkpoint : {"none", "operation", "asset"},
   peer : UploadPeers, first : CreateRequests, request : CreateRequests]

UploadInit ==
  /\ upload = NoUpload
  /\ calls \in [UploadCalls -> [at : {"idle"}, peer : UploadPeers]]
  /\ remote = [r \in CreateRequests |-> "unsent"]
  /\ recorded = "none"

Remembered == upload # NoUpload
InFlight == Remembered /\ upload.doing # "nothing"
Failed == Remembered /\ ~InFlight /\ upload.image = 0
Used == {r \in CreateRequests : remote[r] # "unsent"}

Goes(c, at) == calls' = [calls EXCEPT ![c].at = at]

\* matching: another Peer than the one the generation was dispatched to.
Collides(c) == Remembered /\ upload.stage = "dispatched" /\ upload.peer # calls[c].peer

-----------------------------------------------------------------------------
(***************************************************************************)
(* A call: it is routed, looks the operation up, asks the bridge whether   *)
(* somebody else has started it, and then looks it up again and acquires   *)
(* the image in one turn.                                                  *)
(***************************************************************************)
\* A record that has created nothing begins again.
FreshRequest == IF Used = {} THEN 1 ELSE 1 + CHOOSE r \in Used : \A q \in Used : q <= r

Uploading(c, first) ==
  /\ FreshRequest \in CreateRequests
  /\ upload' = [stage |-> "uploading", phase |-> "local", doing |-> "preparing",
                image |-> 0, checkpoint |-> "none", peer |-> calls[c].peer,
                first |-> first, request |-> FreshRequest]
  /\ Goes(c, "awaiting")

\* acquire: what is in flight is joined, a finished image is used, a checkpoint
\* resumed, an unknown outcome refused; only what created nothing is repeated.
Acquires(c) ==
  /\ calls[c].at = "acquiring" /\ ~Collides(c)
  /\ \/ ~Remembered /\ Uploading(c, FreshRequest)
     \/ InFlight /\ UNCHANGED upload /\ Goes(c, "awaiting")
     \/ /\ Remembered /\ ~InFlight /\ upload.image # 0
        /\ upload' = [upload EXCEPT !.peer = calls[c].peer]
        /\ Goes(c, "holding")
     \/ Failed /\ upload.stage = "upload_failed" /\ Uploading(c, upload.first)
     \/ /\ Failed /\ upload.stage = "upload_unknown" /\ upload.checkpoint # "none"
        /\ upload' = [upload EXCEPT !.stage = "uploading", !.peer = calls[c].peer,
                        !.doing = IF upload.checkpoint = "asset" THEN "resolving" ELSE "polling"]
        /\ Goes(c, "awaiting")
     \/ /\ Failed /\ upload.stage = "upload_unknown" /\ upload.checkpoint = "none"
        /\ upload' = [upload EXCEPT !.peer = calls[c].peer]
        /\ Goes(c, "refused")
  /\ UNCHANGED <<remote, recorded>>

\* The first look: nothing is known here, so the bridge is asked, now or, from
\* a proxy, a while later.
LooksUp(c) ==
  /\ calls[c].at = "idle" /\ ~Collides(c)
  /\ Goes(c, IF Remembered THEN "acquiring" ELSE "joining")
  /\ UNCHANGED <<upload, remote, recorded>>

\* joinOperation: the bridge's record is joined, or refused for its peer.
JoinAnswers(c) ==
  /\ calls[c].at = "joining"
  /\ Goes(c, IF recorded = "none" THEN "acquiring"
                ELSE IF recorded = calls[c].peer THEN "joined" ELSE "refused")
  /\ UNCHANGED <<upload, remote, recorded>>

RefusedForPeer(c) ==
  /\ calls[c].at \in {"idle", "acquiring"} /\ Collides(c)
  /\ Goes(c, "refused")
  /\ UNCHANGED <<upload, remote, recorded>>

-----------------------------------------------------------------------------
(***************************************************************************)
(* The upload.                                                             *)
(***************************************************************************)
Waits(c) == calls[c].at = "awaiting"

AllGo(at) == calls' = [c \in UploadCalls |-> IF Waits(c) THEN [calls[c] EXCEPT !.at = at] ELSE calls[c]]

\* sending: the create request is written.
SendsCreate ==
  /\ InFlight /\ upload.doing = "preparing"
  /\ upload' = [upload EXCEPT !.doing = "sending", !.phase = "sending"]
  /\ remote' = [remote EXCEPT ![upload.request] = "sent"]
  /\ UNCHANGED <<calls, recorded>>

\* Roblox acts on a request it was sent, whether or not anyone still listens.
RobloxActs(r) ==
  /\ \/ remote[r] = "sent" /\ \E to \in {"refused", "processing"} : remote' = [remote EXCEPT ![r] = to]
     \/ remote[r] = "processing" /\ \E to \in {"failed", "created"} : remote' = [remote EXCEPT ![r] = to]
  /\ UNCHANGED <<upload, calls, recorded>>

\* accepted.
IsAccepted ==
  /\ InFlight /\ upload.doing = "sending"
  /\ remote[upload.request] \in {"processing", "created", "failed"}
  /\ upload' = [upload EXCEPT !.doing = "polling", !.phase = "accepted", !.checkpoint = "operation"]
  /\ UNCHANGED <<calls, remote, recorded>>

\* created: the Decal exists, and its image has still to be resolved.
IsCreated ==
  /\ InFlight /\ upload.doing \in {"sending", "polling"} /\ remote[upload.request] = "created"
  /\ upload' = [upload EXCEPT !.doing = "resolving", !.phase = "created", !.checkpoint = "asset"]
  /\ UNCHANGED <<calls, remote, recorded>>

\* The image is known: resolved from the Decal, or the asset itself.
Succeeds ==
  /\ InFlight /\ upload.doing # "preparing" /\ remote[upload.request] = "created"
  /\ upload' = [upload EXCEPT !.stage = "uploaded", !.doing = "nothing", !.image = upload.request]
  /\ AllGo("holding")
  /\ UNCHANGED <<remote, recorded>>

\* What the error says of the create request, if it says anything: the answer
\* was a refusal, or an operation with an error.
Errors ==
  (IF upload.doing = "sending" /\ remote[upload.request] = "refused" THEN {"refusal"} ELSE {})
    \cup (IF upload.doing \in {"sending", "polling"} /\ remote[upload.request] = "failed"
            THEN {"operation_error"} ELSE {})
    \cup {"server_error", "no_answer"}

\* A server error counts as a refusal.
CreatedNothingLoosely(error) ==
  \/ upload.phase = "local"
  \/ upload.phase # "created" /\ error = "operation_error"
  \/ upload.phase = "sending" /\ error \in {"refusal", "server_error"}

CreatedNothing(error) ==
  \/ upload.phase = "local"
  \/ upload.phase # "created" /\ error = "operation_error"
  \/ upload.phase = "sending" /\ error = "refusal"

\* Any of it can fail: the answer is an error, times out or is lost.
UploadFails ==
  /\ InFlight
  /\ \E error \in Errors :
       upload' = [upload EXCEPT !.doing = "nothing",
                    !.stage = IF CreatedNothing(error) THEN "upload_failed" ELSE "upload_unknown",
                    !.phase = IF CreatedNothing(error) THEN "local" ELSE @,
                    !.checkpoint = IF CreatedNothing(error) THEN "none" ELSE @]
  /\ AllGo("refused")
  /\ UNCHANGED <<remote, recorded>>

\* prune, from any call of the map: too old, or one too many, and idle.
IsPruned ==
  /\ Remembered /\ ~InFlight
  /\ upload' = NoUpload
  /\ UNCHANGED <<calls, remote, recorded>>

-----------------------------------------------------------------------------
(***************************************************************************)
(* The generation.                                                         *)
(***************************************************************************)

\* dispatched, then the bridge: it admits, or joins what it has, or refuses a
\* peer that is not its own.
Dispatches(c) ==
  /\ calls[c].at = "holding"
  /\ upload' = IF Remembered /\ upload.image # 0
                   /\ ~(upload.stage = "dispatched" /\ upload.peer # calls[c].peer)
                 THEN [upload EXCEPT !.stage = "dispatched", !.peer = calls[c].peer]
                 ELSE upload
  /\ \/ /\ recorded \in {"none", calls[c].peer}
        /\ recorded' = calls[c].peer
        /\ Goes(c, "joined")
     \/ /\ recorded \notin {"none", calls[c].peer}
        /\ UNCHANGED recorded
        /\ Goes(c, "refused")
     \/ /\ recorded = "none"
        /\ UNCHANGED recorded
        /\ Goes(c, "not_admitted")
  /\ UNCHANGED remote

\* No peer is found for it.
FailsToRoute(c) ==
  /\ calls[c].at = "holding"
  /\ Goes(c, "not_admitted")
  /\ UNCHANGED <<upload, remote, recorded>>

\* notDispatched: a retry may reach another Peer with the image.
NotDispatched(c) ==
  /\ calls[c].at = "not_admitted"
  /\ Goes(c, "refused")
  /\ upload' = IF Remembered /\ ~InFlight /\ upload.image # 0
                   /\ ~(upload.stage = "dispatched" /\ upload.peer # calls[c].peer)
                 THEN [upload EXCEPT !.stage = "uploaded"] ELSE upload
  /\ UNCHANGED <<remote, recorded>>

\* The bridge forgets the operation, or its server goes.
GenerationForgotten ==
  /\ recorded # "none"
  /\ recorded' = "none"
  /\ UNCHANGED <<upload, calls, remote>>

\* The caller tries again; it may be routed elsewhere.
Retries(c) ==
  /\ calls[c].at \in {"refused", "joined"}
  /\ \E p \in UploadPeers : calls' = [calls EXCEPT ![c] = [at |-> "idle", peer |-> p]]
  /\ UNCHANGED <<upload, remote, recorded>>

UploadNext ==
  \/ \E c \in UploadCalls : LooksUp(c)
  \/ \E c \in UploadCalls : JoinAnswers(c)
  \/ \E c \in UploadCalls : RefusedForPeer(c)
  \/ \E c \in UploadCalls : Acquires(c)
  \/ SendsCreate
  \/ \E r \in CreateRequests : RobloxActs(r)
  \/ IsAccepted
  \/ IsCreated
  \/ Succeeds
  \/ UploadFails
  \/ IsPruned
  \/ \E c \in UploadCalls : Dispatches(c)
  \/ \E c \in UploadCalls : FailsToRoute(c)
  \/ \E c \in UploadCalls : NotDispatched(c)
  \/ GenerationForgotten
  \/ \E c \in UploadCalls : Retries(c)

UploadSpec == UploadInit /\ [][UploadNext]_uploadVars

-----------------------------------------------------------------------------
(***************************************************************************)
(* Properties.                                                             *)
(***************************************************************************)
\* "The upload may have created an asset, so it is never repeated": of all the
\* create requests made for one record, over failures, resumptions and any
\* number of concurrent retries, at most one has made an asset or still may
\* (acquire and createdNothing; a record that was pruned is a new one).
UploadedOnce ==
  Remembered =>
    Cardinality({r \in upload.first .. upload.request :
                   remote[r] \in {"sent", "processing", "created"}}) <= 1

=============================================================================
