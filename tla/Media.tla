------------------------------- MODULE Media -------------------------------
(***************************************************************************)
(* Pictures: FileService over the object store, file and file_association.  *)
(* An object, its file row and its association carry the key the upload     *)
(* made; the three are written, and removed, by separate statements.        *)
(***************************************************************************)
EXTENDS Catalogue, Sequences

CONSTANT MaxKeys    \* bound: objects uploaded
Keys == 1..MaxKeys

VARIABLES
    store,          \* objects in the bucket
    file,           \* rows of file
    association,    \* whose picture a file is, or Gone
    uploads,        \* keys made so far
    key,            \* the object each request is at
    at,             \* position in its loop over the files
    cut             \* objects at which a crash, or a statement that failed, stopped
                    \* a request, until a removal got to its end

bucketVars == <<store, file, association, uploads, cut>>
loopVars   == <<key, at>>
mediaVars  == <<bucketVars, loopVars>>

\* What a handler is about: the type of the entity, and how many pictures of
\* it uploadAndAssignImage and uploadConcertImages allow.
Uploads  == [uploadArtistPicture |-> "artist", uploadConcertMember |-> "member",
             uploadFile |-> "user", uploadConcertImages |-> "concert"]
Removals == [deleteArtistPicture |-> "artist", deleteConcertMemberPicture |-> "member",
             deleteProfilePicture |-> "user", deleteConcertImages |-> "concert"]
TypeOf(h) == IF h \in DOMAIN Uploads THEN Uploads[h] ELSE Removals[h]
MaxImages(type) == IF type = "concert" THEN 4 ELSE 1

Owner(p) == [type |-> TypeOf(req[p].handler), id |-> req[p].id]

\* getImagesForEntity: a signed link for each picture; the store is not asked.
Shown(owner) == {k \in Keys : association[k] = owner}

Finish(p) ==
    /\ Answer(p)
    /\ key' = [key EXCEPT ![p] = Null]
    /\ at' = [at EXCEPT ![p] = 1]

Step(p, next) == GoTo(p, next) /\ UNCHANGED requestVars

-----------------------------------------------------------------------------
(* Uploading                                                                 *)

\* The artist or the member is looked for; a user and a concert are not.
ReadOwner(p) ==
    /\ pc[p] \in {"uploadArtistPicture", "uploadConcertMember",
                  "deleteArtistPicture", "deleteConcertMemberPicture"}
    /\ IF rows[TypeOf(pc[p])][req[p].id] = Gone
          THEN Finish(p)
          ELSE /\ Step(p, IF pc[p] \in DOMAIN Uploads THEN "count" ELSE "find")
               /\ UNCHANGED loopVars
    /\ UNCHANGED bucketVars

\* Mutant: the files of this request are not counted.
CountPicturesThere(p) ==
    /\ pc[p] \in {"count", "uploadFile", "uploadConcertImages"}
    /\ IF Cardinality(Shown(Owner(p))) > MaxImages(Owner(p).type)
          THEN Finish(p)
          ELSE Step(p, "put") /\ UNCHANGED loopVars
    /\ UNCHANGED bucketVars

\* The pictures that are there are counted.  Past this test a single picture
\* has no predecessor: the branch that overwrites one is never taken.
CountPictures(p) ==
    /\ pc[p] \in {"count", "uploadFile", "uploadConcertImages"}
    /\ IF Cardinality(Shown(Owner(p))) + req[p].files > MaxImages(Owner(p).type)
          THEN Finish(p)
          ELSE Step(p, "put") /\ UNCHANGED loopVars
    /\ UNCHANGED bucketVars

PutObject(p) ==
    /\ pc[p] = "put"
    /\ uploads < MaxKeys
    /\ uploads' = uploads + 1
    /\ store' = store \cup {uploads + 1}
    /\ key' = [key EXCEPT ![p] = uploads + 1]
    /\ Step(p, "insertFile")
    /\ UNCHANGED <<file, association, cut, at>>

\* The store is not reached: the files before this one stay.
PutFails(p) ==
    /\ pc[p] = "put"
    /\ Finish(p)
    /\ UNCHANGED bucketVars

InsertFile(p) ==
    /\ pc[p] = "insertFile"
    /\ file' = file \cup {key[p]}
    /\ Step(p, "associate")
    /\ UNCHANGED <<store, association, uploads, cut, loopVars>>

\* A row that is not inserted: the object stays ...
InsertFileFails(p) ==
    /\ pc[p] = "insertFile"
    /\ cut' = cut \cup {key[p]}
    /\ Finish(p)
    /\ UNCHANGED <<store, file, association, uploads>>

InsertAssociation(p) ==
    /\ pc[p] = "associate"
    /\ association' = [association EXCEPT ![key[p]] = Owner(p)]
    /\ IF at[p] = req[p].files
          THEN Finish(p)
          ELSE /\ Step(p, "put")
               /\ at' = [at EXCEPT ![p] = @ + 1]
               /\ key' = [key EXCEPT ![p] = Null]
    /\ UNCHANGED <<store, file, uploads, cut>>

\* ... and here with a file row that is nobody's picture.
InsertAssociationFails(p) ==
    /\ pc[p] = "associate"
    /\ cut' = cut \cup {key[p]}
    /\ Finish(p)
    /\ UNCHANGED <<store, file, association, uploads>>

-----------------------------------------------------------------------------
(* Removing                                                                  *)

\* removeImage: any picture of the entity.
FindPicture(p) ==
    /\ pc[p] \in {"find", "deleteProfilePicture"}
    /\ IF Shown(Owner(p)) = {}
          THEN Finish(p)
          ELSE /\ \E k \in Shown(Owner(p)) : key' = [key EXCEPT ![p] = k]
               /\ Step(p, "deleteObject")
               /\ UNCHANGED at
    /\ UNCHANGED bucketVars

\* removeConcertImages goes on with the next file, also after an error.
NextImage(p) ==
    IF req[p].handler = "deleteConcertImages" /\ at[p] < Len(req[p].fileIds)
       THEN /\ Step(p, "findImage")
            /\ at' = [at EXCEPT ![p] = @ + 1]
            /\ key' = [key EXCEPT ![p] = Null]
       ELSE Finish(p)

FindImage(p) ==
    /\ pc[p] \in {"deleteConcertImages", "findImage"}
    /\ LET k == req[p].fileIds[at[p]]
       IN  IF association[k] = Owner(p)
              THEN key' = [key EXCEPT ![p] = k] /\ Step(p, "deleteObject") /\ UNCHANGED at
              ELSE NextImage(p)
    /\ UNCHANGED bucketVars

DeleteObject(p) ==
    /\ pc[p] = "deleteObject"
    /\ store' = store \ {key[p]}
    /\ Step(p, "deleteFile")
    /\ UNCHANGED <<file, association, uploads, cut, loopVars>>

\* Mutant: the row is deleted although the object is still there.
DeleteFailsUnnoticed(p) ==
    /\ pc[p] = "deleteObject"
    /\ Step(p, "deleteFile")
    /\ UNCHANGED <<bucketVars, loopVars>>

\* The store is not reached: the rows stay.
DeleteFails(p) ==
    /\ pc[p] = "deleteObject"
    /\ NextImage(p)
    /\ UNCHANGED bucketVars

\* The association goes with the file: its foreign key cascades.
DeleteFile(p) ==
    /\ pc[p] = "deleteFile"
    /\ file' = file \ {key[p]}
    /\ association' = [association EXCEPT ![key[p]] = Gone]
    /\ cut' = cut \ {key[p]}
    /\ NextImage(p)
    /\ UNCHANGED <<store, uploads>>

\* The picture stays, and its object is gone.
DeleteFileFails(p) ==
    /\ pc[p] = "deleteFile"
    /\ cut' = cut \cup {key[p]}
    /\ NextImage(p)
    /\ UNCHANGED <<store, file, association, uploads>>

-----------------------------------------------------------------------------
\* Between the store and the tables.
InBetween(p) == pc[p] \in {"insertFile", "associate", "deleteFile"}

MediaInit ==
    /\ store = {}
    /\ file = {}
    /\ association = [k \in Keys |-> Gone]
    /\ key = [p \in Procs |-> Null]
    /\ at = [p \in Procs |-> 1]
    /\ uploads = 0
    /\ cut = {}

MediaFault(p) ==
    \/ PutFails(p) \/ InsertFileFails(p) \/ InsertAssociationFails(p)
    \/ DeleteFails(p) \/ DeleteFileFails(p)

MediaStep(p) ==
    \/ ReadOwner(p) \/ CountPictures(p) \/ PutObject(p) \/ InsertFile(p)
    \/ InsertAssociation(p) \/ FindPicture(p) \/ FindImage(p) \/ DeleteObject(p)
    \/ DeleteFile(p)

MediaCrash ==
    /\ cut' = cut \cup {key[p] : p \in {q \in Procs : InBetween(q)}}
    /\ key' = [p \in Procs |-> Null]
    /\ at' = [p \in Procs |-> 1]
    /\ UNCHANGED <<store, file, association, uploads>>

MediaTypeOK ==
    /\ store \subseteq Keys
    /\ file \subseteq Keys
    /\ cut \subseteq Keys
    /\ uploads \in 0..MaxKeys
    /\ \A k \in Keys : association[k] = Gone \/ association[k].id \in Ids
    /\ key \in [Procs -> Keys \cup {Null}]
    /\ at \in [Procs -> Nat \ {0}]

-----------------------------------------------------------------------------
(* Properties                                                                *)

\* Every picture that is shown has its object, and every object its picture,
\* except the one a request is at and those at which a request was stopped
\* between the store and the tables, by a crash or a statement that failed.  A
\* failure of the store and overlapping removals of a picture leave none, and
\* to remove again what a removal left halfway leaves none either.
StoreMatchesFiles ==
    \A k \in Keys :
        \/ k \in cut
        \/ \E p \in Procs : key[p] = k /\ InBetween(p)
        \/ /\ k \in store <=> k \in file
           /\ k \in file <=> association[k] # Gone

\* Requests that counted before the others inserted exceed the limit: each can
\* add what the limit allows, and no sequence of requests adds more.
PicturesBounded ==
    \A k \in Keys : association[k] # Gone =>
        Cardinality(Shown(association[k]))
            <= MaxImages(association[k].type) * Cardinality(Procs)
=============================================================================
