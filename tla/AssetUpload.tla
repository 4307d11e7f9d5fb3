------------------------------ MODULE AssetUpload ------------------------------
(***************************************************************************)
(* The upload of the files an app registered as assets: aupload_assets     *)
(* (client/upload/assets.py) and astore_media_file (client/upload/media.py) *)
(* Each file goes on its own: asked for, checked, granted, put where the   *)
(* grant says, and recorded.  Registration starts the upload, and says     *)
(* what becomes of it; this module has no next-state relation of its own.  *)
(*                                                                         *)
(* A file is the asset it was registered as (its hash), so an asset and    *)
(* its ref have one name.  Contents are as registered or changed since.    *)
(***************************************************************************)
EXTENDS Integers, Sequences, FiniteSets, FiniteSetsExt, SequencesExt

CONSTANTS
    Assets,        \* the assets' refs
    FromSource,    \* those the app only names a source for (path is None)
    MaxMishaps     \* bound: the files that change, the assets refused and the uploads
                   \* that fail as a whole, taken together

ASSUME AssetsAssumption == FromSource \subseteq Assets /\ MaxMishaps \in Nat

VARIABLES
    registered,  \* registered_assets, in order; never changes
    uploads,     \* the uploads under way: at which asset, awaiting what, by which agent
    files,       \* what is at an asset's path
    stored,      \* what the datalayer holds for it
    created,     \* how often a CreateAsset of it was answered
    adrift,      \* the assets whose CreateAsset was cut off, and may yet be served
    late,        \* those that were recorded by such a one
    logged,      \* the assets this process gave up with a warning
    mishaps      \* how many there were of those

uploadVars == <<registered, uploads, files, stored, created, adrift, late, logged, mishaps>>

Stages == {"query", "grant", "put", "create"}

UploadTypeOK ==
    /\ registered \in Seq(Assets)
    /\ uploads \in Seq([at : 1 .. Len(registered), stage : Stages, by : Nat])
    /\ files \in [Assets -> {"registered", "changed", "gone"}]
    /\ stored \in [Assets -> {"nothing", "registered", "changed"}]
    /\ created \in [Assets -> Nat]
    /\ adrift \subseteq Assets /\ late \subseteq Assets
    /\ logged \subseteq Assets
    /\ mishaps \in 0 .. MaxMishaps

UploadInit(assets) ==
    /\ registered = assets
    /\ uploads = <<>>
    /\ files = [a \in Assets |-> "registered"]
    /\ stored = [a \in Assets |-> "nothing"]
    /\ created = [a \in Assets |-> 0]
    /\ adrift = {} /\ late = {}
    /\ logged = {} /\ mishaps = 0

\* The next asset that is the app's to upload; past the last one there is none.
From(i) == Min({j \in i .. Len(registered) : registered[j] \notin FromSource}
               \cup {Len(registered) + 1})

\* What rekuest_agent makes of the registry: no upload where nothing has a path.
HasUpload == From(1) <= Len(registered)

\* The server holds an asset it recorded, whoever waited for the answer.
Held(a) == created[a] > 0 \/ a \in late

At(u) == registered[uploads[u].at]
Awaits(u, stage) == u \in DOMAIN uploads /\ uploads[u].stage = stage

Await(u, stage) == uploads' = [uploads EXCEPT ![u].stage = stage]

\* (Mutant of NextAsset: an asset the server has not recorded ends the upload.)
StopAtFailure(u) ==
    uploads' = IF ~Held(At(u)) THEN RemoveAt(uploads, u)
               ELSE LET i == From(uploads[u].at + 1) IN
                    IF i > Len(registered) THEN RemoveAt(uploads, u)
                    ELSE [uploads EXCEPT ![u] = [@ EXCEPT !.at = i, !.stage = "query"]]

\* (Mutant of NextAsset: what the app has no path for is tried, too.)
TryEvery(u) ==
    uploads' = [uploads EXCEPT ![u] = [@ EXCEPT !.at = @ + 1, !.stage = "query"]]

\* The loop of aupload_assets: on to the next asset, or done.
NextAsset(u) ==
    LET i == From(uploads[u].at + 1) IN
    uploads' = IF i > Len(registered) THEN RemoveAt(uploads, u)
               ELSE [uploads EXCEPT ![u] = [@ EXCEPT !.at = i, !.stage = "query"]]

\* A GraphQLException, an UploadError or an OSError: logged, and the rest still go.
GiveUp(u) ==
    /\ NextAsset(u)
    /\ logged' = logged \cup {At(u)}

\* StoredAsset is answered.  An asset the server holds is passed over; a file that
\* is gone or has another hash is not uploaded; for any other a grant is asked.
Queried(u) ==
    /\ Awaits(u, "query")
    /\ \/ Held(At(u)) /\ NextAsset(u) /\ UNCHANGED logged
       \/ ~Held(At(u)) /\ files[At(u)] = "registered" /\ Await(u, "grant") /\ UNCHANGED logged
       \/ ~Held(At(u)) /\ files[At(u)] # "registered" /\ GiveUp(u)
    /\ UNCHANGED <<registered, files, stored, created, adrift, late, mishaps>>

Granted(u) ==
    /\ Awaits(u, "grant")
    /\ Await(u, "put")
    /\ UNCHANGED <<registered, files, stored, created, adrift, late, logged, mishaps>>

\* The file is opened again, and put: whatever it holds by now.
Put(u) ==
    /\ Awaits(u, "put")
    /\ \/ /\ files[At(u)] # "gone"
          /\ stored' = [stored EXCEPT ![At(u)] = files[At(u)]]
          /\ Await(u, "create")
          /\ UNCHANGED logged
       \/ /\ files[At(u)] = "gone"
          /\ GiveUp(u)
          /\ UNCHANGED stored
    /\ UNCHANGED <<registered, files, created, adrift, late, mishaps>>

\* CreateAsset: the server reads back what is stored, and records it.
Recorded(u) ==
    /\ Awaits(u, "create")
    /\ created' = [created EXCEPT ![At(u)] = @ + 1]
    /\ NextAsset(u)
    /\ UNCHANGED <<registered, files, stored, adrift, late, logged, mishaps>>

Mishap == mishaps < MaxMishaps /\ mishaps' = mishaps + 1

\* The server refuses a mutation, or the datalayer the file.
Refused(u) ==
    /\ u \in DOMAIN uploads
    /\ GiveUp(u)
    /\ Mishap
    /\ UNCHANGED <<registered, files, stored, created, adrift, late>>

\* Someone writes over the file, or removes it.
FileChanges(a) ==
    /\ a \in Range(registered) \ FromSource /\ files[a] = "registered"
    /\ \E now \in {"changed", "gone"} : files' = [files EXCEPT ![a] = now]
    /\ Mishap
    /\ UNCHANGED <<registered, uploads, stored, created, adrift, late, logged>>

\* A CreateAsset under way when its upload ends reaches the server all the same, now or
\* later, or never does.  (A put cut off changes no record.)
UnderWay(lost) == {At(u) : u \in {v \in lost : uploads[v].stage = "create"}}

\* An upload is cut off where it waits.
CutOff(u) ==
    /\ uploads' = RemoveAt(uploads, u)
    /\ adrift' = adrift \cup UnderWay({u})

ServedLate(a) ==
    /\ a \in adrift
    /\ adrift' = adrift \ {a}
    /\ late' = late \cup {a}
    /\ UNCHANGED <<registered, uploads, files, stored, created, logged, mishaps>>

\* Any other exception, a lost connection first of all, ends the whole upload.
Breaks(u) ==
    /\ u \in DOMAIN uploads
    /\ CutOff(u)
    /\ Mishap
    /\ UNCHANGED <<registered, files, stored, created, late, logged>>

Answered(u) == Queried(u) \/ Granted(u) \/ Put(u) \/ Recorded(u)

\* aupload_assets is called: at the first asset with a path.
BeginUpload(by) == uploads' = Append(uploads, [at |-> From(1), stage |-> "query", by |-> by])

\* Every asset the app is to upload is at the server, or its failure was logged.
Settled == \A i \in DOMAIN registered :
    LET a == registered[i] IN a \in FromSource \/ Held(a) \/ a \in logged
=============================================================================
