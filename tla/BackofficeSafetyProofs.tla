----------------------- MODULE BackofficeSafetyProofs -----------------------
(***************************************************************************)
(* Proofs about Backoffice: what comes back and what leaves, registrations  *)
(* and their orders, mailed codes, pictures and listings, from the type     *)
(* invariant and the table steps of BackofficeProofs.                       *)
(***************************************************************************)
EXTENDS BackofficeProofs

-----------------------------------------------------------------------------
(* Single tables under a table step                                          *)

\* What save() writes to the two tables.
LEMMA SaveWrites ==
    ASSUME TypeInv, NEW p \in Procs, Save(p)
    PROVE  /\ req[p].concert \in Ids
           /\ \/ rows' = rows /\ lineup' = lineup
              \/ /\ \A k \in Kinds, i \in Ids : rows'[k][i] =
                       IF k = "concert" /\ i = req[p].concert THEN SavedConcert(p)
                       ELSE IF k = "artist" THEN SavedArtists(p)[i] ELSE rows[k][i]
                 /\ lineup' = [lineup EXCEPT ![req[p].concert] =
                                  (lineup[req[p].concert] \ diff[p].remove) \cup diff[p].add]
  <1>1. rows = [k \in Kinds |-> [j \in Ids |-> rows[k][j]]]
    BY DEF TypeInv, TablesTyped
  <1>2. req[p].concert \in Ids /\ SavedArtists(p) = [i \in Ids |-> SavedArtists(p)[i]]
    BY SavedRows DEF Save
  <1>3. CASE SaveBreaks(p)
    BY <1>2, <1>3 DEF Save
  <1>4. CASE ~SaveBreaks(p)
    <2>1. /\ rows' = [rows EXCEPT !["concert"][req[p].concert] = SavedConcert(p),
                                  !["artist"] = SavedArtists(p)]
          /\ lineup' = [lineup EXCEPT ![req[p].concert] =
                           (lineup[req[p].concert] \ diff[p].remove) \cup diff[p].add]
      BY <1>4 DEF Save
    <2>2. "concert" \in Kinds /\ "artist" \in Kinds
      BY KindsAre
    <2>3. \A k \in Kinds, i \in Ids : rows'[k][i] =
             IF k = "concert" /\ i = req[p].concert THEN SavedConcert(p)
             ELSE IF k = "artist" THEN SavedArtists(p)[i] ELSE rows[k][i]
      BY <1>1, <1>2, <2>1, <2>2
    <2>4. QED  BY <1>2, <2>1, <2>3
  <1>5. QED  BY <1>3, <1>4

LEMMA OrderWrites ==
    ASSUME TypeInv, NEW p \in Procs, PlaceOrder(p)
    PROVE  /\ req[p].id \in Ids
           /\ NextId("order") \in Ids \ born["order"]
           /\ NextId("orderLine") \in Ids \ born["orderLine"]
           /\ \A k \in Kinds, i \in Ids : rows'[k][i] =
                 IF k = "order" /\ i = NextId("order") THEN [register |-> req[p].id]
                 ELSE IF k = "orderLine" /\ i = NextId("orderLine")
                    THEN [order |-> NextId("order"), category |-> req[p].category]
                 ELSE rows[k][i]
           /\ \A k \in Kinds : born[k] \subseteq born'[k]
           /\ NextId("order") \in born'["order"] /\ NextId("orderLine") \in born'["orderLine"]
           /\ [register |-> req[p].id] # Gone
  <1>1. req[p].id \in Ids /\ req[p].category \in Ids
    BY StatementsOf DEF PlaceOrder, Ordering, IsRequest, Creations
  <1>2. NextId("order") \in Ids \ born["order"] /\ NextId("orderLine") \in Ids \ born["orderLine"]
    BY NextIdIsNew DEF PlaceOrder
  <1>3. /\ rows' = [rows EXCEPT !["order"][NextId("order")] = [register |-> req[p].id],
                                !["orderLine"][NextId("orderLine")] =
                                     [order |-> NextId("order"), category |-> req[p].category]]
        /\ born' = [born EXCEPT !["order"] = @ \cup {NextId("order")},
                                !["orderLine"] = @ \cup {NextId("orderLine")}]
    BY DEF PlaceOrder
  <1>4. "order" \in Kinds /\ "orderLine" \in Kinds
    BY KindsAre
  <1>5. /\ rows = [k \in Kinds |-> [j \in Ids |-> rows[k][j]]]
        /\ born \in [Kinds -> SUBSET Ids]
    BY DEF TypeInv, TablesTyped
  <1>6. \A k \in Kinds, i \in Ids : rows'[k][i] =
           IF k = "order" /\ i = NextId("order") THEN [register |-> req[p].id]
           ELSE IF k = "orderLine" /\ i = NextId("orderLine")
              THEN [order |-> NextId("order"), category |-> req[p].category]
           ELSE rows[k][i]
    BY <1>2, <1>3, <1>4, <1>5
  <1>7. /\ \A k \in Kinds : born[k] \subseteq born'[k]
        /\ NextId("order") \in born'["order"] /\ NextId("orderLine") \in born'["orderLine"]
    BY <1>3, <1>4, <1>5
  <1>8. QED  BY <1>1, <1>2, <1>6, <1>7, OrderRows

LEMMA MarkWrites ==
    ASSUME TypeInv, NEW p \in Procs, MarkUsed(p)
    PROVE  /\ req[p].id \in Ids
           /\ \A k \in Kinds, i \in Ids : rows'[k][i] =
                 IF k = "register" /\ i = req[p].id /\ rows["register"][i] # Gone
                    THEN [rows["register"][i] EXCEPT !.used = TRUE] ELSE rows[k][i]
           /\ born' = born
  <1>1. req[p].id \in Ids /\ "register" \in Kinds
    BY StatementsOf, KindsAre DEF MarkUsed, Ordering, IsRequest, Creations
  <1>2. rows = [k \in Kinds |-> [j \in Ids |-> rows[k][j]]]
    BY DEF TypeInv, TablesTyped
  <1>3. CASE Registration(p) = Gone
    BY <1>1, <1>3 DEF MarkUsed, Registration
  <1>4. CASE Registration(p) # Gone
    <2> DEFINE new == [rows["register"][req[p].id] EXCEPT !.used = TRUE]
    <2>1. rows' = [rows EXCEPT !["register"][req[p].id] = new] /\ born' = born
      BY <1>1, <1>2, <1>4 DEF MarkUsed, Registration
    <2>2. rows["register"][req[p].id] # Gone
      BY <1>4 DEF Registration
    <2>3. \A k \in Kinds, i \in Ids : k = "register" /\ i = req[p].id =>
             new = [rows["register"][i] EXCEPT !.used = TRUE]
      OBVIOUS
    <2> HIDE DEF new
    <2>4. \A k \in Kinds, i \in Ids : rows'[k][i] =
             IF k = "register" /\ i = req[p].id THEN new ELSE rows[k][i]
      BY <1>1, <1>2, <2>1
    <2>5. ASSUME NEW k \in Kinds, NEW i \in Ids
          PROVE  rows'[k][i] =
                    IF k = "register" /\ i = req[p].id /\ rows["register"][i] # Gone
                       THEN [rows["register"][i] EXCEPT !.used = TRUE] ELSE rows[k][i]
      <3>1. CASE k = "register" /\ i = req[p].id
        <4>1. rows'[k][i] = new /\ new = [rows["register"][i] EXCEPT !.used = TRUE]
          BY <2>3, <2>4, <3>1
        <4>2. QED  BY <2>2, <3>1, <4>1
      <3>2. CASE ~(k = "register" /\ i = req[p].id)
        BY <2>4, <3>2
      <3>3. QED  BY <3>1, <3>2
    <2>6. QED  BY <1>1, <2>1, <2>5
  <1>5. QED  BY <1>3, <1>4

\* What a table step does to one row: it stays, it is new, it is changed, it
\* goes, or save() writes it.
RowStep(k, i, p) ==
    \/ rows'[k][i] = rows[k][i]
    \/ i = NextId(k) /\ i \in Ids \ born[k] /\ i \in born'[k]
       /\ \/ /\ k \notin {"order", "orderLine", "orderTicket"}
             /\ IsRow(k, rows'[k][i]) /\ rows'[k][i] # Gone /\ Allowed(k, i, rows'[k][i])
             /\ k = "register" => rows'[k][i].concert # Null /\ rows'[k][i].used = FALSE
          \/ PlaceOrder(p) /\ k \in {"order", "orderLine"}
    \/ /\ k \notin {"register", "category", "order", "orderLine", "orderTicket"}
       /\ rows[k][i] # Gone /\ rows'[k][i] # Gone
    \/ /\ k \notin {"order", "orderLine", "orderTicket"}
       /\ rows[k][i] # Gone /\ rows'[k][i] = Gone /\ ~Held(k, i)
    \/ /\ MarkUsed(p) /\ k = "register" /\ i = req[p].id /\ rows[k][i] # Gone
       /\ rows'[k][i] = [rows[k][i] EXCEPT !.used = TRUE]
    \/ /\ Save(p)
       /\ \/ k = "concert" /\ i = req[p].concert
          \/ k = "artist" /\ rows'[k][i] = SavedArtists(p)[i]

LEMMA RowSteps ==
    ASSUME TypeInv, NEW p \in Procs, TableStep(p), NEW k \in Kinds, NEW i \in Ids
    PROVE  RowStep(k, i, p) /\ born[k] \subseteq born'[k]
  <1>1. /\ rows = [l \in Kinds |-> [j \in Ids |-> rows[l][j]]]
        /\ born \in [Kinds -> SUBSET Ids]
    BY DEF TypeInv, TablesTyped
  <1>2. CASE UNCHANGED <<rows, lineup, born>>
    BY <1>2 DEF RowStep
  <1>3. ASSUME NEW h \in DOMAIN Creations, NEW row, NewRow(h, row), InsertStep(Creations[h], row)
        PROVE  RowStep(k, i, p) /\ born[k] \subseteq born'[k]
    <2>1. /\ Creations[h] \in Kinds \ {"order", "orderLine", "orderTicket"}
          /\ NextId(Creations[h]) \in Ids \ born[Creations[h]]
          /\ IsRow(Creations[h], row) /\ row # Gone
          /\ h = "createRegister" => row.concert # Null /\ row.used = FALSE
          /\ Creations[h] = "register" => h = "createRegister"
      BY <1>3, TargetKinds DEF InsertStep, NewRow, Creations
    <2>2. /\ born' = [born EXCEPT ![Creations[h]] = @ \cup {NextId(Creations[h])}]
          /\ \/ rows' = rows
             \/ /\ rows' = [rows EXCEPT ![Creations[h]][NextId(Creations[h])] = row]
                /\ Allowed(Creations[h], NextId(Creations[h]), row)
      BY <1>3 DEF InsertStep
    <2>3. /\ born[k] \subseteq born'[k]
          /\ NextId(Creations[h]) \in born'[Creations[h]]
      BY <1>1, <2>1, <2>2
    <2>4. \/ rows'[k][i] = rows[k][i]
          \/ k = Creations[h] /\ i = NextId(Creations[h]) /\ rows'[k][i] = row /\ Allowed(k, i, row)
      BY <1>1, <2>1, <2>2
    <2>5. QED  BY <2>1, <2>3, <2>4 DEF RowStep
  <1>4. ASSUME NEW h \in DOMAIN Changes, req[p].id \in Ids, IsChange(Changes[h], req[p].body),
               UpdateStep(Changes[h], req[p].id, req[p].body)
        PROVE  RowStep(k, i, p) /\ born[k] \subseteq born'[k]
    <2> DEFINE new == Patch(rows[Changes[h]][req[p].id], req[p].body)
    <2>1. /\ Changes[h] \in Kinds
          /\ Changes[h] \notin {"register", "category", "order", "orderLine", "orderTicket"}
      BY TargetKinds
    <2>2. IsRow(Changes[h], rows[Changes[h]][req[p].id])
      BY <1>4, <2>1 DEF TypeInv, TablesTyped
    <2>3. rows[Changes[h]][req[p].id] # Gone => new # Gone
      BY <1>4, <2>1, <2>2, PatchedRow
    <2>4. /\ born' = born
          /\ \/ rows' = rows
             \/ /\ rows[Changes[h]][req[p].id] # Gone
                /\ rows' = [rows EXCEPT ![Changes[h]][req[p].id] = new]
      BY <1>4 DEF UpdateStep
    <2> HIDE DEF new
    <2>5. \/ rows'[k][i] = rows[k][i]
          \/ /\ k = Changes[h] /\ i = req[p].id /\ rows'[k][i] = new
             /\ rows[Changes[h]][req[p].id] # Gone
      BY <1>1, <1>4, <2>1, <2>4
    <2>6. QED  BY <2>1, <2>3, <2>4, <2>5 DEF RowStep
  <1>5. ASSUME NEW h \in DOMAIN Deletions, req[p].id \in Ids, DeleteStep(Deletions[h], req[p].id)
        PROVE  RowStep(k, i, p) /\ born[k] \subseteq born'[k]
    <2>1. Deletions[h] \in Kinds \ {"order", "orderLine", "orderTicket"}
      BY TargetKinds
    <2>2. /\ born' = born
          /\ \/ rows' = rows
             \/ /\ ~Held(Deletions[h], req[p].id)
                /\ rows' = [rows EXCEPT ![Deletions[h]][req[p].id] = Gone]
      BY <1>5 DEF DeleteStep
    <2>3. \/ rows'[k][i] = rows[k][i]
          \/ k = Deletions[h] /\ i = req[p].id /\ rows'[k][i] = Gone /\ ~Held(k, i)
      BY <1>1, <1>5, <2>1, <2>2
    <2>4. QED  BY <2>1, <2>2, <2>3 DEF RowStep
  <1>6. CASE PlaceOrder(p)
    <2>1. /\ born[k] \subseteq born'[k]
          /\ \/ rows'[k][i] = rows[k][i]
             \/ /\ k \in {"order", "orderLine"}
                /\ i = NextId(k) /\ i \in Ids \ born[k] /\ i \in born'[k]
      <3>1. /\ \A l \in Kinds : born[l] \subseteq born'[l]
            /\ \A l \in {"order", "orderLine"} : NextId(l) \in Ids \ born[l] /\ NextId(l) \in born'[l]
        BY <1>6, OrderWrites
      <3>2. rows'[k][i] =
               IF k = "order" /\ i = NextId("order") THEN [register |-> req[p].id]
               ELSE IF k = "orderLine" /\ i = NextId("orderLine")
                  THEN [order |-> NextId("order"), category |-> req[p].category]
               ELSE rows[k][i]
        BY <1>6, OrderWrites
      <3>3. QED  BY <3>1, <3>2
    <2>2. QED  BY <1>6, <2>1 DEF RowStep
  <1>7. CASE MarkUsed(p)
    <2>1. /\ req[p].id \in Ids /\ born' = born
          /\ rows'[k][i] =
                IF k = "register" /\ i = req[p].id /\ rows["register"][i] # Gone
                   THEN [rows["register"][i] EXCEPT !.used = TRUE] ELSE rows[k][i]
      BY <1>7, MarkWrites
    <2>2. CASE k = "register" /\ i = req[p].id /\ rows["register"][i] # Gone
      BY <1>7, <2>1, <2>2 DEF RowStep
    <2>3. CASE ~(k = "register" /\ i = req[p].id /\ rows["register"][i] # Gone)
      BY <2>1, <2>3 DEF RowStep
    <2>4. QED  BY <2>2, <2>3
  <1>8. CASE Save(p)
    <2>1. /\ born' = born
          /\ \/ rows'[k][i] = rows[k][i]
             \/ k = "concert" /\ i = req[p].concert
             \/ k = "artist" /\ rows'[k][i] = SavedArtists(p)[i]
      <3>1. born' = born
        BY <1>8 DEF Save
      <3>2. CASE rows' = rows
        BY <3>1, <3>2
      <3>3. CASE rows' # rows
        <4>1. rows'[k][i] =
                 IF k = "concert" /\ i = req[p].concert THEN SavedConcert(p)
                 ELSE IF k = "artist" THEN SavedArtists(p)[i] ELSE rows[k][i]
          BY <1>8, <3>3, SaveWrites
        <4>2. QED  BY <3>1, <4>1
      <3>4. QED  BY <3>2, <3>3
    <2>2. QED  BY <1>8, <2>1 DEF RowStep
  <1>9. QED  BY <1>2, <1>3, <1>4, <1>5, <1>6, <1>7, <1>8 DEF TableStep

-----------------------------------------------------------------------------
(* RowsComeBackOnlyByOverlap                                                 *)

\* In every run an identifier that has been given has a row again only by the
\* save() of an assignment that holds what was deleted in memory.
THEOREM RowsComeBack == Spec => RowsComeBackOnlyByOverlap
  <1>1. ASSUME TypeInv, Next, NEW k \in Kinds, NEW i \in born[k],
               rows[k][i] = Gone, rows'[k][i] # Gone
        PROVE  \E p \in Procs : /\ pc[p] = "save" /\ pc'[p] = "idle"
                                /\ \/ k = "concert" /\ i = req[p].concert
                                   \/ k = "artist" /\ entity[p].artists[i] # Gone
    <2>1. i \in Ids
      BY <1>1 DEF TypeInv, TablesTyped
    <2>2. PICK p \in Procs : TableStep(p)
      BY <1>1, TableSteps
    <2>3. RowStep(k, i, p)
      BY <1>1, <2>1, <2>2, RowSteps
    <2>4. /\ Save(p)
          /\ \/ k = "concert" /\ i = req[p].concert
             \/ k = "artist" /\ SavedArtists(p)[i] # Gone
      BY <1>1, <2>3 DEF RowStep
    <2>5. pc[p] = "save" /\ pc'[p] = "idle"
      BY <1>1, <2>4, FunctionsOfProcs DEF Save, Answer
    <2>6. ASSUME k = "artist"
          PROVE  entity[p].artists[i] # Gone
      <3>1. SavedArtists(p)[i] # rows["artist"][i] /\ rows["artist"][i] = Gone
        BY <1>1, <2>4, <2>6
      <3>2. i \in diff[p].revive
        BY <2>1, <3>1 DEF SavedArtists
      <3>3. diff[p].revive \subseteq InMemory(p)
        BY <1>1, <2>5 DEF TypeInv, Remembered
      <3>4. QED  BY <3>2, <3>3 DEF InMemory
    <2>7. QED  BY <2>4, <2>5, <2>6
  <1>2. TypeInv /\ [Next]_backofficeVars =>
           [\A k \in Kinds : \A i \in born[k] :
               rows[k][i] = Gone /\ rows'[k][i] # Gone =>
                   \E p \in Procs :
                       /\ pc[p] = "save" /\ pc'[p] = "idle"
                       /\ \/ k = "concert" /\ i = req[p].concert
                          \/ k = "artist" /\ entity[p].artists[i] # Gone]_<<rows, pc>>
    BY <1>1 DEF backofficeVars, catalogueVars, tableVars
  <1>3. QED
    BY <1>2, InitTypeInv, NextTypeInv, PTL DEF Spec, RowsComeBackOnlyByOverlap

-----------------------------------------------------------------------------
(* ArtistsLeaveOnlyByOverlap                                                 *)

\* An assignment or a removal has in memory the artists of the line-up it read;
\* save() takes out none of those it has in memory.
LineupRead(p) ==
    /\ pc[p] \in Saving => \A a \in entity[p].lineup : entity[p].artists[a] # Gone
    /\ pc[p] = "save" => \A a \in diff[p].remove : entity[p].artists[a] = Gone

LineupInv == \A p \in Procs : LineupRead(p)

\* What an assignment has read changes only by its own steps.
LEMMA ReadsStay ==
    ASSUME TypeInv, Next, NEW p \in Procs, pc'[p] \in Saving
    PROVE  \/ pc'[p] = pc[p] /\ req'[p] = req[p] /\ entity'[p] = entity[p] /\ diff'[p] = diff[p]
           \/ ReadConcert(p) \/ ReadArtist(p) \/ SelectForSave(p)
  <1>1. CASE UNCHANGED <<catalogueVars, mediaVars, registrationVars>>
    BY <1>1 DEF catalogueVars, requestVars
  <1>2. CASE \A q \in Procs : Quits(q)
    BY <1>2 DEF Quits, Saving
  <1>3. ASSUME NEW q \in Procs, q # p, Acts(q)
        PROVE  pc'[p] = pc[p] /\ req'[p] = req[p] /\ entity'[p] = entity[p] /\ diff'[p] = diff[p]
    BY <1>3, ActsLocally, FunctionsOfProcs DEF Locally
  <1>4. CASE Arrive(p)
    <2>1. PICK r \in offered.requests : Start(p, r)
      BY <1>4 DEF Arrive
    <2>2. IsRequest(r) /\ r.handler \in Handlers
      BY OffersAssumption DEF TypeInv, TablesTyped, IsRequest
    <2>3. pc'[p] = r.handler
      BY <2>1, FunctionsOfProcs DEF Start, GoTo
    <2>4. QED  BY <2>2, <2>3 DEF Handlers, Creations, Changes, Deletions, Uploads, Removals,
                Lineups, Mails, Saving
  <1>5. CASE CatalogueAlone(p)
    <2>1. Answer(p) => pc'[p] = "idle"
      BY FunctionsOfProcs DEF Answer
    <2>2. QED  BY <1>5, <2>1, CatalogueMoves DEF CatalogueAlone, Saving
  <1>6. CASE RegistrationAlone(p)
    <2>1. /\ Answer(p) => pc'[p] = "idle"
          /\ GoTo(p, "order") => pc'[p] = "order"
          /\ GoTo(p, "markUsed") => pc'[p] = "markUsed"
      BY FunctionsOfProcs DEF Answer, GoTo
    <2>2. QED  BY <1>6, <2>1, RegistrationMoves DEF RegistrationAlone, Saving
  <1>7. CASE MediaAlone(p) \/ StoreFault(p)
    <2>1. /\ Finish(p) => pc'[p] = "idle"
          /\ \A step : Step(p, step) => pc'[p] = step
      BY FunctionsOfProcs DEF Finish, Answer, Step, GoTo
    <2>2. pc'[p] \in {"idle", "count", "find", "put", "insertFile", "associate", "findImage",
                      "deleteObject", "deleteFile"}
      BY <1>7, <2>1 DEF MediaAlone, StoreFault, MediaStep, MediaFault, ReadOwner, CountPictures,
         PutObject, PutFails, InsertFile, InsertFileFails, InsertAssociation,
         InsertAssociationFails, FindPicture, FindImage, NextImage, DeleteObject, DeleteFails,
         DeleteFile, DeleteFileFails
    <2>3. QED  BY <2>2 DEF Saving
  <1>8. CASE \E q \in Procs : Acts(q)
    BY <1>3, <1>4, <1>5, <1>6, <1>7, <1>8 DEF Acts
  <1>9. QED  BY <1>1, <1>2, <1>8, RequestSteps

LEMMA LineupStep ==
    ASSUME TypeInv, ReferencesHold, LineupInv, Next
    PROVE  LineupInv'
  <1> SUFFICES ASSUME NEW p \in Procs
               PROVE  LineupRead(p)'
    BY DEF LineupInv
  <1>1. LineupRead(p)
    BY DEF LineupInv
  <1>2. CASE pc'[p] \notin Saving
    BY <1>2 DEF LineupRead, Saving
  <1>3. CASE pc'[p] \in Saving
    <2>1. CASE pc'[p] = pc[p] /\ req'[p] = req[p] /\ entity'[p] = entity[p] /\ diff'[p] = diff[p]
      BY <1>1, <2>1 DEF LineupRead
    <2>2. CASE ReadConcert(p)
      <3>1. /\ pc[p] \in Lineups /\ "readArtist" # "save"
            /\ req[p].concert \in Ids
        BY <2>2, LineupHandler DEF ReadConcert
      <3>2. /\ pc'[p] = "readArtist"
            /\ entity'[p] = [concert |-> rows["concert"][req[p].concert],
                             lineup |-> lineup[req[p].concert],
                             artists |-> [a \in Ids |->
                                 IF a \in lineup[req[p].concert]
                                    THEN rows["artist"][a] ELSE Gone]]
        BY <1>3, <2>2, FunctionsOfProcs DEF ReadConcert, Answer, GoTo, Saving
      <3>3. lineup[req[p].concert] \subseteq Ids
        BY <3>1 DEF TypeInv, TablesTyped
      <3>4. \A a \in lineup[req[p].concert] : rows["artist"][a] # Gone
        BY <3>1 DEF ReferencesHold, ReferencesHoldIn
      <3>5. \A a \in entity'[p].lineup : entity'[p].artists[a] # Gone
        BY <3>2, <3>3, <3>4
      <3>6. QED  BY <3>2, <3>5 DEF LineupRead
    <2>3. CASE ReadArtist(p)
      <3>1. /\ pc[p] \in Saving /\ req[p].id \in Ids
            /\ req[p].handler \in Lineups
        BY <2>3, LineupHandler DEF ReadArtist, Saving
      <3>2. /\ pc'[p] = "diff" /\ rows["artist"][req[p].id] # Gone
            /\ entity' = [entity EXCEPT ![p].artists =
                             IF req[p].handler = "assignArtistToConcert"
                                THEN [@ EXCEPT ![req[p].id] = rows["artist"][req[p].id]] ELSE @]
        BY <1>3, <2>3, FunctionsOfProcs DEF ReadArtist, Answer, GoTo, Saving
      <3>3. /\ entity[p] = [concert |-> entity[p].concert, lineup |-> entity[p].lineup,
                            artists |-> entity[p].artists]
            /\ entity[p].artists = [i \in Ids |-> entity[p].artists[i]]
            /\ entity[p].lineup \subseteq Ids
        BY <3>1 DEF TypeInv, Remembered
      <3>4. entity'[p].lineup = entity[p].lineup
        BY <3>2, <3>3, FunctionsOfProcs
      <3>5. \/ entity'[p].artists = entity[p].artists
            \/ entity'[p].artists = [entity[p].artists EXCEPT ![req[p].id] =
                                        rows["artist"][req[p].id]]
        BY <3>2, <3>3, FunctionsOfProcs
      <3>6. \A a \in Ids : \/ entity'[p].artists[a] = entity[p].artists[a]
                           \/ entity'[p].artists[a] # Gone
        <4> DEFINE read == rows["artist"][req[p].id]
        <4>1. \A f : f = [i \in Ids |-> f[i]] =>
                 \A a \in Ids : [f EXCEPT ![req[p].id] = read][a] \in {f[a], read}
          BY <3>1
        <4>2. read # Gone
          BY <3>2
        <4> HIDE DEF read
        <4>3. QED  BY <3>3, <3>5, <4>1, <4>2 DEF read
      <3>7. \A a \in entity'[p].lineup : entity'[p].artists[a] # Gone
        BY <1>1, <3>1, <3>3, <3>4, <3>6 DEF LineupRead
      <3>8. QED  BY <3>2, <3>7 DEF LineupRead
    <2>4. CASE SelectForSave(p)
      <3>1. /\ pc[p] \in Saving /\ req[p].concert \in Ids
        BY <2>4, LineupHandler DEF SelectForSave, Saving
      <3>2. /\ entity' = entity /\ req' = req
            /\ diff'[p].remove = lineup[req[p].concert] \ InMemory(p)
        BY <2>4, FunctionsOfProcs DEF SelectForSave
      <3>3. lineup[req[p].concert] \subseteq Ids
        BY <3>1 DEF TypeInv, TablesTyped
      <3>4. \A a \in diff'[p].remove : entity'[p].artists[a] = Gone
        BY <3>2, <3>3 DEF InMemory
      <3>5. QED  BY <1>1, <3>1, <3>2, <3>4 DEF LineupRead
    <2>5. QED  BY <1>3, <2>1, <2>2, <2>3, <2>4, ReadsStay
  <1>4. QED  BY <1>2, <1>3

\* In every run an artist leaves a line-up, both still there, only by the save()
\* of a request that had read the line-up before the artist entered it: the
\* artist that a removal names stays, as every other does.
THEOREM ArtistsLeave == Spec => ArtistsLeaveOnlyByOverlap
  <1>1. ASSUME TypeInv, LineupInv, Next, NEW c \in Ids, NEW a \in lineup[c] \ lineup'[c],
               rows'["concert"][c] # Gone, rows'["artist"][a] # Gone
        PROVE  \E p \in Procs :
                  pc[p] = "save" /\ req[p].concert = c /\ a \notin entity[p].lineup
    <2>1. /\ lineup \in [Ids -> SUBSET Ids] /\ "concert" \in Kinds /\ "artist" \in Kinds
          /\ rows = [k \in Kinds |-> [j \in Ids |-> rows[k][j]]]
      BY <1>1, KindsAre DEF TypeInv, TablesTyped
    <2>2. a \in Ids
      BY <2>1
    <2>3. PICK p \in Procs : TableStep(p)
      BY <1>1, TableSteps
    <2>4. ASSUME NEW h \in DOMAIN Deletions, req[p].id \in Ids,
                 DeleteStep(Deletions[h], req[p].id)
          PROVE  FALSE
      <3>1. /\ ~Held(Deletions[h], req[p].id)
            /\ rows' = [rows EXCEPT ![Deletions[h]][req[p].id] = Gone]
            /\ \/ Deletions[h] = "concert" /\ c = req[p].id
               \/ Deletions[h] = "artist" /\ a = req[p].id
        BY <2>1, <2>2, <2>4 DEF DeleteStep
      <3>2. rows'[Deletions[h]][req[p].id] = Gone
        BY <2>1, <2>4, <3>1
      <3>3. QED  BY <1>1, <3>1, <3>2
    <2>5. Save(p)
      BY <2>3, <2>4 DEF TableStep, InsertStep, UpdateStep, PlaceOrder, MarkUsed
    <2>6. lineup' = [lineup EXCEPT ![req[p].concert] =
                        (lineup[req[p].concert] \ diff[p].remove) \cup diff[p].add]
      BY <1>1, <2>5, SaveWrites
    <2>7. pc[p] = "save" /\ req[p].concert = c /\ a \in diff[p].remove
      BY <2>1, <2>5, <2>6 DEF Save
    <2>8. a \notin entity[p].lineup
      BY <1>1, <2>7 DEF LineupInv, LineupRead, Saving
    <2>9. QED  BY <2>7, <2>8
  <1>2. TypeInv /\ LineupInv /\ [Next]_backofficeVars =>
           [\A c \in Ids : \A a \in lineup[c] \ lineup'[c] :
               (rows'["concert"][c] # Gone /\ rows'["artist"][a] # Gone) =>
                   \E p \in Procs :
                       pc[p] = "save" /\ req[p].concert = c
                       /\ a \notin entity[p].lineup]_<<lineup, rows>>
    BY <1>1 DEF backofficeVars, catalogueVars, tableVars
  <1>3. Init => LineupInv
    BY DEF Init, CatalogueInit, LineupInv, LineupRead, Saving
  <1>4. TypeInv /\ ReferencesHold /\ LineupInv /\ [Next]_backofficeVars => LineupInv'
    <2>1. CASE UNCHANGED backofficeVars
      BY <2>1 DEF backofficeVars, catalogueVars, requestVars, LineupInv, LineupRead
    <2>2. QED  BY <2>1, LineupStep
  <1>5. QED
    BY <1>2, <1>3, <1>4, InitTypeInv, NextTypeInv, ReferencesAlwaysHold, PTL
       DEF Spec, ArtistsLeaveOnlyByOverlap

-----------------------------------------------------------------------------
(* CodesLapseOnlyByChange                                                    *)

\* The sequence of a table is ahead of its rows.
Numbered(k) == \A i \in Ids : rows[k][i] # Gone => i \in born[k]

Mailable == {"ticket", "position", "concert"}

\* What was mailed names rows by their identifiers, and what save() brings back
\* was there before.
CodesInv ==
    /\ \A k \in Mailable : Numbered(k)
    /\ \A p \in Procs : pc[p] \in Saving => req[p].concert \in born["concert"]
    /\ \A i \in Ids : rows["orderTicket"][i] = InitialRows["orderTicket"][i]
    /\ \A m \in mailed : m.id \in Ids
    /\ \A badge \in badges : badge.id \in Ids /\ badge.concert \in Ids

\* A row that is there goes by its deletion, and changes by an update that
\* names the column or, a concert, by a save().
GoesByDeletion(k, i, p) ==
    /\ \E h \in DOMAIN Deletions : Deletions[h] = k /\ pc[p] = h
    /\ req[p].id = i /\ ~Held(k, i)
ChangesByUpdate(k, i, p) ==
    /\ \E h \in DOMAIN Changes : Changes[h] = k /\ pc[p] = h
    /\ req[p].id = i /\ rows'[k][i] # Gone
    /\ \A c \in Entities[k].columns \ DOMAIN req[p].body : rows'[k][i][c] = rows[k][i][c]
ChangesBySave(k, i, p) ==
    /\ Save(p) /\ k = "concert" /\ i = req[p].concert
    /\ rows' # rows /\ rows'[k][i] = SavedConcert(p)

LEMMA RowLapses ==
    ASSUME TypeInv, NEW p \in Procs, TableStep(p), NEW k \in Mailable, NEW i \in Ids,
           Numbered(k), rows[k][i] # Gone
    PROVE  \/ rows'[k][i] = rows[k][i]
           \/ GoesByDeletion(k, i, p) \/ ChangesByUpdate(k, i, p) \/ ChangesBySave(k, i, p)
  <1>1. /\ rows = [l \in Kinds |-> [j \in Ids |-> rows[l][j]]]
        /\ k \in Kinds /\ IsRow(k, rows[k][i])
    BY KindsAre DEF TypeInv, TablesTyped, Mailable
  <1>2. i \in born[k]
    BY DEF Numbered
  <1>3. CASE UNCHANGED <<rows, lineup, born>>
    BY <1>3
  <1>4. ASSUME NEW h \in DOMAIN Creations, NEW row, NewRow(h, row), InsertStep(Creations[h], row)
        PROVE  rows'[k][i] = rows[k][i]
    <2>1. Creations[h] \in Kinds /\ NextId(Creations[h]) \in Ids \ born[Creations[h]]
      BY <1>4, TargetKinds DEF InsertStep
    <2>2. rows' = rows \/ rows' = [rows EXCEPT ![Creations[h]][NextId(Creations[h])] = row]
      BY <1>4 DEF InsertStep
    <2>3. ~(k = Creations[h] /\ i = NextId(Creations[h]))
      BY <1>2, <2>1
    <2>4. QED  BY <1>1, <2>1, <2>2, <2>3
  <1>5. ASSUME NEW h \in DOMAIN Changes, pc[p] = h, req[p].id \in Ids,
               IsChange(Changes[h], req[p].body),
               UpdateStep(Changes[h], req[p].id, req[p].body)
        PROVE  rows'[k][i] = rows[k][i] \/ ChangesByUpdate(k, i, p)
    <2> DEFINE new == Patch(rows[Changes[h]][req[p].id], req[p].body)
    <2>1. Changes[h] \in Kinds
      BY TargetKinds
    <2>2. rows' = rows \/ rows' = [rows EXCEPT ![Changes[h]][req[p].id] = new]
      BY <1>5 DEF UpdateStep
    <2>3. CASE k = Changes[h] /\ i = req[p].id
      <3>1. /\ new # Gone
            /\ \A c \in Entities[k].columns \ DOMAIN req[p].body : new[c] = rows[k][i][c]
        BY <1>1, <1>5, <2>3, PatchedRow
      <3> HIDE DEF new
      <3>2. rows' = rows \/ rows'[k][i] = new
        BY <1>1, <1>5, <2>1, <2>2, <2>3
      <3>3. QED  BY <1>5, <2>3, <3>1, <3>2 DEF ChangesByUpdate
    <2> HIDE DEF new
    <2>4. CASE ~(k = Changes[h] /\ i = req[p].id)
      BY <1>1, <1>5, <2>1, <2>2, <2>4
    <2>5. QED  BY <2>3, <2>4
  <1>6. ASSUME NEW h \in DOMAIN Deletions, pc[p] = h, req[p].id \in Ids,
               DeleteStep(Deletions[h], req[p].id)
        PROVE  rows'[k][i] = rows[k][i] \/ GoesByDeletion(k, i, p)
    <2>1. Deletions[h] \in Kinds
      BY TargetKinds
    <2>2. \/ rows' = rows
          \/ /\ ~Held(Deletions[h], req[p].id)
             /\ rows' = [rows EXCEPT ![Deletions[h]][req[p].id] = Gone]
      BY <1>6 DEF DeleteStep
    <2>3. CASE k = Deletions[h] /\ i = req[p].id
      BY <1>6, <2>2, <2>3 DEF GoesByDeletion
    <2>4. CASE ~(k = Deletions[h] /\ i = req[p].id)
      BY <1>1, <1>6, <2>1, <2>2, <2>4
    <2>5. QED  BY <2>3, <2>4
  <1>7. CASE PlaceOrder(p)
    BY <1>1, <1>7, OrderWrites DEF Mailable
  <1>8. CASE MarkUsed(p)
    BY <1>1, <1>8, MarkWrites DEF Mailable
  <1>9. CASE Save(p)
    <2>1. CASE rows' = rows
      BY <2>1
    <2>2. CASE rows' # rows
      <3>1. rows'[k][i] = IF k = "concert" /\ i = req[p].concert THEN SavedConcert(p)
                          ELSE IF k = "artist" THEN SavedArtists(p)[i] ELSE rows[k][i]
        BY <1>1, <1>9, <2>2, SaveWrites
      <3>2. QED  BY <1>9, <2>2, <3>1 DEF ChangesBySave, Mailable
    <2>3. QED  BY <2>1, <2>2
  <1>10. QED
    BY <1>3, <1>4, <1>5, <1>6, <1>7, <1>8, <1>9 DEF TableStep

\* The handlers of the three tables.
LEMMA MailableHandlers ==
    /\ \A h \in DOMAIN Changes : /\ Changes[h] = "ticket" => h = "updateTicket"
                                 /\ Changes[h] = "position" => h = "updateConcertPosition"
                                 /\ Changes[h] = "concert" => h = "updateConcert"
    /\ \A h \in DOMAIN Deletions : /\ Deletions[h] = "ticket" => h = "deleteTicket"
                                   /\ Deletions[h] = "position" => h = "deleteConcertPosition"
  BY DEF Changes, Deletions

LEMMA MailableColumns ==
    /\ Mailable \subseteq Kinds
    /\ "code" \in Entities["ticket"].columns
    /\ {"code", "concert"} \subseteq Entities["position"].columns
    /\ "over" \in Entities["concert"].columns /\ ColumnType("over") = BOOLEAN
    /\ "concert" \in DOMAIN Entities["position"].refs
    /\ Entities["position"].refs["concert"] = "concert"
  BY KindsAre DEF Mailable, Entities, TicketEntity, PositionEntity, ConcertEntity, ColumnType

\* A save() makes a concert over only when it was over as it was read.
LEMMA SavedOver ==
    ASSUME TypeInv, NEW p \in Procs, Save(p), rows' # rows,
           rows["concert"][req[p].concert] # Gone, ~rows["concert"][req[p].concert].over,
           SavedConcert(p).over
    PROVE  entity[p].concert.over
  <1> DEFINE row == rows["concert"][req[p].concert]
             new == Formatted("concert", entity[p].concert)
  <1>1. "concert" \in Kinds /\ "over" \in Entities["concert"].columns \ {"name"}
    BY KindsAre, MailableColumns
  <1>2. pc[p] = "save" /\ ~SaveBreaks(p)
    BY DEF Save
  <1>3. ~diff[p].insert
    BY <1>2 DEF SaveBreaks
  <1>4. IsRow("concert", entity[p].concert) /\ entity[p].concert # Gone
    BY <1>2 DEF TypeInv, Remembered, Saving
  <1>5. new.over = entity[p].concert.over
    BY <1>1, <1>4, FormattedRow DEF IsRow
  <1>6. IsRow("concert", row)
    <2>1. req[p].concert \in Ids
      BY <1>2, SavedRows
    <2>2. QED  BY <1>1, <2>1 DEF TypeInv, TablesTyped
  <1>7. DOMAIN row = Entities["concert"].columns
    BY <1>6 DEF IsRow
  <1> HIDE DEF new
  <1>8. SavedConcert(p) = [c \in Entities["concert"].columns |->
                              IF c \in diff[p].columns THEN new[c] ELSE row[c]]
    BY <1>3, <1>7 DEF SavedConcert, new
  <1>9. SavedConcert(p).over = new.over \/ SavedConcert(p).over = row.over
    BY <1>1, <1>8
  <1>10. QED  BY <1>5, <1>9

\* What a ticket or a badge lapses by.
TicketLapses(m) ==
    \E p \in Procs : \/ pc[p] = "deleteTicket" /\ req[p].id = m.id
                     \/ Asks(p, "updateTicket", m.id, {"code"})
BadgeLapses(badge) ==
    \E p \in Procs : \/ pc[p] = "deleteConcertPosition" /\ req[p].id = badge.id
                     \/ Asks(p, "updateConcertPosition", badge.id, {"code", "concert"})
                     \/ Asks(p, "updateConcert", badge.concert, {"over"})
                     \/ /\ pc[p] = "save" /\ req[p].concert = badge.concert
                        /\ entity[p].concert.over

LEMMA TicketLapse ==
    ASSUME TypeInv, CodesInv, NEW p \in Procs, TableStep(p), NEW m \in mailed,
           AcceptsTicket(m), ~AcceptsTicket(m)'
    PROVE  TicketLapses(m)
  <1>1. m.id \in Ids /\ Numbered("ticket") /\ "ticket" \in Mailable
    BY DEF CodesInv, Mailable
  <1>2. /\ rows["ticket"][m.id] # Gone /\ rows["ticket"][m.id].code = m.code
        /\ ~(rows'["ticket"][m.id] # Gone /\ rows'["ticket"][m.id].code = m.code)
    BY DEF AcceptsTicket
  <1>3. \/ GoesByDeletion("ticket", m.id, p) \/ ChangesByUpdate("ticket", m.id, p)
        \/ ChangesBySave("ticket", m.id, p)
    BY <1>1, <1>2, RowLapses
  <1>4. CASE GoesByDeletion("ticket", m.id, p)
    BY <1>4, MailableHandlers DEF GoesByDeletion, TicketLapses
  <1>5. CASE ChangesByUpdate("ticket", m.id, p)
    <2>1. pc[p] = "updateTicket" /\ req[p].id = m.id /\ rows'["ticket"][m.id] # Gone
      BY <1>5, MailableHandlers DEF ChangesByUpdate
    <2>2. "code" \in DOMAIN req[p].body
      BY <1>2, <1>5, <2>1, MailableColumns DEF ChangesByUpdate
    <2>3. QED  BY <2>1, <2>2 DEF TicketLapses, Asks
  <1>6. QED  BY <1>3, <1>4, <1>5 DEF ChangesBySave

LEMMA BadgeLapse ==
    ASSUME TypeInv, ReferencesHold, CodesInv, NEW p \in Procs, TableStep(p),
           NEW badge \in badges, AcceptsBadge(badge), ~AcceptsBadge(badge)'
    PROVE  BadgeLapses(badge)
  <1> DEFINE position == rows["position"][badge.id]
             concert == rows["concert"][badge.concert]
  <1>1. /\ badge.id \in Ids /\ badge.concert \in Ids
        /\ Numbered("position") /\ Numbered("concert")
        /\ "position" \in Mailable /\ "concert" \in Mailable
    BY DEF CodesInv, Mailable
  <1>2. /\ position # Gone /\ position.concert = badge.concert
        /\ position.code = badge.code /\ ~concert.over
    BY DEF AcceptsBadge
  <1>3. CASE position' = Gone \/ position'.code # badge.code
             \/ position'.concert # badge.concert
    <2>1. position' # position
      BY <1>2, <1>3
    <2>2. \/ GoesByDeletion("position", badge.id, p) \/ ChangesByUpdate("position", badge.id, p)
          \/ ChangesBySave("position", badge.id, p)
      BY <1>1, <1>2, <2>1, RowLapses
    <2>3. CASE GoesByDeletion("position", badge.id, p)
      BY <2>3, MailableHandlers DEF GoesByDeletion, BadgeLapses
    <2>4. CASE ChangesByUpdate("position", badge.id, p)
      <3>1. pc[p] = "updateConcertPosition" /\ req[p].id = badge.id /\ position' # Gone
        BY <2>4, MailableHandlers DEF ChangesByUpdate
      <3>2. DOMAIN req[p].body \cap {"code", "concert"} # {}
        BY <1>2, <1>3, <2>4, <3>1, MailableColumns DEF ChangesByUpdate
      <3>3. QED  BY <3>1, <3>2 DEF BadgeLapses, Asks
    <2>5. QED  BY <2>2, <2>3, <2>4 DEF ChangesBySave
  <1>4. CASE position' # Gone /\ position'.code = badge.code
             /\ position'.concert = badge.concert
    <2>1. concert'.over
      BY <1>4 DEF AcceptsBadge
    <2>2. concert # Gone /\ Held("concert", badge.concert)
      <3>1. badge.concert # Null
        BY <1>1, BoundsAssumption, NothingAssumption
      <3>2. "position" \in Kinds /\ "concert" \in Kinds
        BY KindsAre
      <3>3. QED
        BY <1>1, <1>2, <3>1, <3>2, MailableColumns
           DEF ReferencesHold, ReferencesHoldIn, RefsFoundIn, FoundIn, Held
    <2>3. \/ GoesByDeletion("concert", badge.concert, p)
          \/ ChangesByUpdate("concert", badge.concert, p)
          \/ ChangesBySave("concert", badge.concert, p)
      BY <1>1, <1>2, <2>1, <2>2, RowLapses
    <2>4. CASE ChangesByUpdate("concert", badge.concert, p)
      <3>1. pc[p] = "updateConcert" /\ req[p].id = badge.concert
        BY <2>4, MailableHandlers DEF ChangesByUpdate
      <3>2. "over" \in DOMAIN req[p].body
        BY <1>2, <2>1, <2>4, MailableColumns DEF ChangesByUpdate
      <3>3. QED  BY <3>1, <3>2 DEF BadgeLapses, Asks
    <2>5. CASE ChangesBySave("concert", badge.concert, p)
      <3>1. /\ Save(p) /\ rows' # rows /\ req[p].concert = badge.concert
            /\ SavedConcert(p).over
        BY <2>1, <2>5 DEF ChangesBySave
      <3>2. entity[p].concert.over
        BY <1>2, <2>2, <3>1, SavedOver
      <3>3. QED  BY <3>1, <3>2 DEF Save, BadgeLapses
    <2>6. QED  BY <2>2, <2>3, <2>4, <2>5 DEF GoesByDeletion
  <1>5. QED  BY <1>3, <1>4

LEMMA RegistrationVarsSteps ==
    ASSUME Next
    PROVE  UNCHANGED registrationVars \/ \E p \in Procs : SendTickets(p) \/ PlaceOrder(p)
  BY DEF Next, Arrive, CatalogueAlone, MediaAlone, StoreFault, RegistrationAlone, ListingsAlone,
     ProcessEnds, Terminating, backofficeVars, RegistrationStep, Register, DeleteRegister,
     CheckRegistration, OrderFails, MarkUsed, CreateTicket, UpdateTicket, DeleteTicket,
     CreateCategory, DeleteCategory, registrationVars

LEMMA MailVarsSteps ==
    ASSUME Next
    PROVE  UNCHANGED mailVars \/ \E p \in Procs : SendBadge(p)
  <1>1. ASSUME NEW p \in Procs, CatalogueStep(p), ~SendBadge(p)
        PROVE  UNCHANGED mailVars
    BY <1>1 DEF CatalogueStep, Genres, Groups, Venues, CreateConcert, ChangeConcert,
       CreateMember, ChangeMember, CreatePosition, ChangePosition, CreateRole, ChangeRole,
       CreateArtist, ChangeArtist, CreateRule, ChangeRule, ReadConcert, ReadArtist,
       SelectForSave, Save, Creates, Inserts, Updates, Deletes
  <1>2. ASSUME NEW p \in Procs, RegistrationStep(p)
        PROVE  UNCHANGED mailVars
    BY <1>2 DEF RegistrationStep, Register, DeleteRegister, CheckRegistration, PlaceOrder,
       OrderFails, MarkUsed, CreateTicket, UpdateTicket, DeleteTicket, CreateCategory,
       DeleteCategory, SendTickets, Creates, Inserts, Updates, Deletes
  <1>3. QED
    BY <1>1, <1>2 DEF Next, Arrive, Start, CatalogueAlone, MediaAlone, StoreFault,
       RegistrationAlone, ListingsAlone, ProcessEnds, Crash, Terminating, backofficeVars,
       catalogueVars

\* The tables' part of the invariant.
LEMMA CodesNumbered ==
    ASSUME TypeInv, CodesInv, Next
    PROVE  /\ \A k \in Mailable : Numbered(k)'
           /\ \A i \in Ids : rows'["orderTicket"][i] = rows["orderTicket"][i]
           /\ born["concert"] \subseteq born'["concert"]
  <1>1. Mailable \subseteq Kinds /\ "concert" \in Kinds /\ "orderTicket" \in Kinds
    BY KindsAre DEF Mailable
  <1>2. CASE UNCHANGED <<rows, lineup, born>>
    BY <1>2 DEF CodesInv, Numbered
  <1>3. ASSUME NEW p \in Procs, TableStep(p)
        PROVE  /\ \A k \in Mailable : Numbered(k)'
               /\ \A i \in Ids : rows'["orderTicket"][i] = rows["orderTicket"][i]
               /\ born["concert"] \subseteq born'["concert"]
    <2>1. ASSUME NEW k \in Mailable, NEW i \in Ids, rows'[k][i] # Gone
          PROVE  i \in born'[k]
      <3>1. RowStep(k, i, p) /\ born[k] \subseteq born'[k]
        BY <1>1, <1>3, RowSteps
      <3>2. Save(p) /\ k = "concert" /\ i = req[p].concert => i \in born[k]
        BY DEF Save, Saving, CodesInv
      <3>3. QED  BY <2>1, <3>1, <3>2 DEF RowStep, CodesInv, Numbered, Mailable
    <2>2. ASSUME NEW i \in Ids
          PROVE  rows'["orderTicket"][i] = rows["orderTicket"][i]
      <3>1. RowStep("orderTicket", i, p)
        BY <1>1, <1>3, RowSteps
      <3>2. QED  BY <3>1 DEF RowStep
    <2>3. born["concert"] \subseteq born'["concert"]
      <3>1. CASE Ids = {}
        BY <1>1, <1>3, <3>1, RowsKeepTypes DEF TypeInv, TablesTyped
      <3>2. CASE Ids # {}
        BY <1>1, <1>3, <3>2, RowSteps
      <3>3. QED  BY <3>1, <3>2
    <2>4. QED  BY <2>1, <2>2, <2>3 DEF Numbered
  <1>4. QED  BY <1>2, <1>3, TableSteps

LEMMA CodesStep ==
    ASSUME TypeInv, ReferencesHold, CodesInv, Next
    PROVE  CodesInv'
  <1>1. /\ \A k \in Mailable : Numbered(k)'
        /\ \A i \in Ids : rows'["orderTicket"][i] = InitialRows["orderTicket"][i]
        /\ born["concert"] \subseteq born'["concert"]
    BY CodesNumbered DEF CodesInv
  <1>2. ASSUME NEW p \in Procs, pc'[p] \in Saving
        PROVE  req'[p].concert \in born'["concert"]
    <2>1. CASE pc'[p] = pc[p] /\ req'[p] = req[p]
      BY <1>1, <1>2, <2>1 DEF CodesInv
    <2>2. CASE ReadConcert(p)
      <3>1. pc[p] \in Lineups
        BY <2>2 DEF ReadConcert
      <3>2. req[p].concert \in Ids
        BY <3>1, LineupHandler
      <3>3. ~Answer(p)
        BY <1>2, FunctionsOfProcs DEF Answer, Saving
      <3>4. rows["concert"][req[p].concert] # Gone /\ req' = req
        BY <2>2, <3>3 DEF ReadConcert
      <3>5. QED  BY <1>1, <3>2, <3>4 DEF CodesInv, Numbered, Mailable
    <2>3. CASE ReadArtist(p)
      <3>1. ~Answer(p)
        BY <1>2, FunctionsOfProcs DEF Answer, Saving
      <3>2. pc[p] \in Saving /\ req' = req
        BY <2>3, <3>1 DEF ReadArtist, Saving
      <3>3. QED  BY <1>1, <3>2 DEF CodesInv
    <2>4. CASE SelectForSave(p)
      <3>1. pc[p] \in Saving /\ req' = req
        BY <2>4 DEF SelectForSave, Saving
      <3>2. QED  BY <1>1, <3>1 DEF CodesInv
    <2>5. QED  BY <1>2, <2>1, <2>2, <2>3, <2>4, ReadsStay
  <1>3. \A m \in mailed' : m.id \in Ids
    <2>1. CASE mailed' = mailed
      BY <2>1 DEF CodesInv
    <2>2. ASSUME NEW p \in Procs, SendTickets(p), NEW m \in mailed' \ mailed
          PROVE  m.id \in Ids
      <3>1. PICK l \in Ids : /\ rows["orderTicket"][l] # Gone
                             /\ m.id = rows["orderTicket"][l].ticket
        BY <2>2 DEF SendTickets
      <3>2. rows["orderTicket"][l].ticket # Null
        BY <3>1, TablesAssumption DEF CodesInv
      <3>3. "ticket" \in DOMAIN Entities["orderTicket"].refs /\ "orderTicket" \in Kinds
        BY KindsAre DEF Entities, OrderTicketEntity
      <3>4. IsRow("orderTicket", rows["orderTicket"][l])
        BY <3>3 DEF TypeInv, TablesTyped
      <3>5. QED  BY <3>1, <3>2, <3>3, <3>4, RefsAreIds
    <2>3. CASE \E p \in Procs : SendTickets(p)
      BY <2>2, <2>3 DEF CodesInv
    <2>4. QED  BY <2>1, <2>3, RegistrationVarsSteps DEF registrationVars, PlaceOrder
  <1>4. \A badge \in badges' : badge.id \in Ids /\ badge.concert \in Ids
    <2>1. CASE badges' = badges
      BY <2>1 DEF CodesInv
    <2>2. ASSUME NEW p \in Procs, SendBadge(p), NEW badge \in badges' \ badges
          PROVE  badge.id \in Ids /\ badge.concert \in Ids
      <3>1. badge.id = req[p].id /\ badge.concert = req[p].concert /\ pc[p] = "sendEmail"
        BY <2>2 DEF SendBadge
      <3>2. IsRequest(req[p]) /\ req[p].handler = "sendEmail"
        BY <3>1, RequestOf DEF Handlers, Mails
      <3>3. QED  BY <3>1, <3>2 DEF IsRequest, Creations
    <2>3. CASE \E p \in Procs : SendBadge(p)
      BY <2>2, <2>3 DEF CodesInv
    <2>4. QED  BY <2>1, <2>3, MailVarsSteps DEF mailVars
  <1>5. QED  BY <1>1, <1>2, <1>3, <1>4 DEF CodesInv

\* In every run a mailed ticket or badge that would be accepted stops being so
\* only by a deletion of its row, an update that names what it is checked
\* against, or an assignment that had read the concert as over: the foreign
\* key keeps the concert, and no identifier is given twice.
THEOREM CodesLapse == Spec => CodesLapseOnlyByChange
  <1> DEFINE Lapses == /\ \A m \in mailed : AcceptsTicket(m) /\ ~AcceptsTicket(m)' => TicketLapses(m)
                       /\ \A badge \in badges :
                             AcceptsBadge(badge) /\ ~AcceptsBadge(badge)' => BadgeLapses(badge)
  <1>1. Init => CodesInv
    BY KindsAre
       DEF Init, CatalogueInit, RegistrationInit, CodesInv, Numbered, Mailable, Saving
  <1>2. TypeInv /\ ReferencesHold /\ CodesInv /\ [Next]_backofficeVars => CodesInv'
    <2>1. CASE UNCHANGED backofficeVars
      BY <2>1 DEF backofficeVars, catalogueVars, tableVars, mailVars, requestVars,
         registrationVars, CodesInv, Numbered
    <2>2. QED  BY <2>1, CodesStep
  <1>3. TypeInv /\ ReferencesHold /\ CodesInv /\ [Next]_backofficeVars => [Lapses]_rows
    <2> SUFFICES ASSUME TypeInv, ReferencesHold, CodesInv, Next, rows' # rows
                 PROVE  Lapses
      BY DEF backofficeVars, catalogueVars, tableVars
    <2>1. PICK p \in Procs : TableStep(p)
      BY TableSteps
    <2>2. QED  BY <2>1, TicketLapse, BadgeLapse
  <1>4. TypeInv /\ ReferencesHold /\ CodesInv /\ [Next]_backofficeVars =>
           [/\ \A m \in mailed : AcceptsTicket(m) /\ ~AcceptsTicket(m)' =>
                  \E p \in Procs : \/ pc[p] = "deleteTicket" /\ req[p].id = m.id
                                   \/ Asks(p, "updateTicket", m.id, {"code"})
            /\ \A badge \in badges : AcceptsBadge(badge) /\ ~AcceptsBadge(badge)' =>
                  \E p \in Procs :
                      \/ pc[p] = "deleteConcertPosition" /\ req[p].id = badge.id
                      \/ Asks(p, "updateConcertPosition", badge.id, {"code", "concert"})
                      \/ Asks(p, "updateConcert", badge.concert, {"over"})
                      \/ /\ pc[p] = "save" /\ req[p].concert = badge.concert
                         /\ entity[p].concert.over]_rows
    BY <1>3 DEF TicketLapses, BadgeLapses
  <1>5. QED
    BY <1>1, <1>2, <1>4, InitTypeInv, NextTypeInv, ReferencesAlwaysHold, PTL
       DEF Spec, CodesLapseOnlyByChange

-----------------------------------------------------------------------------
(* UsedMeansOrdered and OneOrderPerAddress                                   *)

\* The concert and the address of the registration of an order.
Pair(o) ==
    <<rows["register"][rows["order"][o].register].concert,
      rows["register"][rows["order"][o].register].name>>

\* An address has one registration for a concert, and every registration does
\* have a concert.
RegistrationsDiffer ==
    \A i \in Ids : rows["register"][i] # Gone =>
        /\ rows["register"][i].concert # Null
        /\ \A j \in Ids \ {i} : rows["register"][j] # Gone =>
              \/ rows["register"][i].concert # rows["register"][j].concert
              \/ rows["register"][i].name # rows["register"][j].name

OrdersDiffer ==
    \A o, q \in Orders : o # q => rows["order"][o].register # rows["order"][q].register

\* A request that marks a registration has placed its order.
MarkersOrdered ==
    \A p \in Procs : pc[p] = "markUsed" =>
        \E o \in Orders : rows["order"][o].register = req[p].id

OrderInv ==
    /\ Numbered("order") /\ Numbered("register") /\ UsedMeansOrdered /\ MarkersOrdered
    /\ RegistrationsDiffer /\ OrdersDiffer
    /\ ordered = {Pair(o) : o \in Orders}

\* Orders stay as they are, whatever happens, and PlaceOrder alone adds one.
LEMMA OrdersStay ==
    ASSUME TypeInv, Numbered("order"), Next
    PROVE  /\ \A o \in Ids : rows["order"][o] # Gone => rows'["order"][o] = rows["order"][o]
           /\ Orders \subseteq Orders'
           /\ Numbered("order")'
           /\ (\A p \in Procs : ~PlaceOrder(p)) => Orders' = Orders
  <1>1. "order" \in Kinds
    BY KindsAre
  <1>2. ASSUME NEW o \in Ids
        PROVE  /\ born["order"] \subseteq born'["order"]
               /\ \/ rows'["order"][o] = rows["order"][o]
                  \/ /\ o \notin born["order"] /\ o \in born'["order"]
                     /\ \E p \in Procs : PlaceOrder(p)
    <2>1. CASE UNCHANGED <<rows, lineup, born>>
      BY <2>1
    <2>2. ASSUME NEW p \in Procs, TableStep(p)
          PROVE  RowStep("order", o, p) /\ born["order"] \subseteq born'["order"]
      BY <1>1, <2>2, RowSteps
    <2>3. CASE \E p \in Procs : TableStep(p)
      BY <2>2, <2>3 DEF RowStep
    <2>4. QED  BY <2>1, <2>3, TableSteps
  <1>3. \A o \in Ids : rows["order"][o] # Gone => rows'["order"][o] = rows["order"][o]
    BY <1>2 DEF Numbered
  <1>4. QED  BY <1>2, <1>3 DEF Orders, Numbered

\* What may happen to a registration.
LEMMA RegistrationsStay ==
    ASSUME TypeInv, Numbered("register"), Next, NEW i \in Ids
    PROVE  \/ rows'["register"][i] = rows["register"][i]
           \/ /\ i = NextId("register")
              /\ rows["register"][i] = Gone /\ rows'["register"][i] # Gone
              /\ rows'["register"][i].concert # Null /\ rows'["register"][i].used = FALSE
              /\ IsRow("register", rows'["register"][i])
              /\ Allowed("register", i, rows'["register"][i])
           \/ rows'["register"][i] = Gone /\ ~Held("register", i)
           \/ /\ rows["register"][i] # Gone /\ rows'["register"][i] # Gone
              /\ rows'["register"][i].concert = rows["register"][i].concert
              /\ rows'["register"][i].name = rows["register"][i].name
              /\ \E p \in Procs : MarkUsed(p) /\ req[p].id = i
  <1>1. "register" \in Kinds
    BY KindsAre
  <1>2. CASE UNCHANGED <<rows, lineup, born>>
    BY <1>2
  <1>3. ASSUME NEW p \in Procs, TableStep(p), rows'["register"][i] # rows["register"][i]
        PROVE  \/ /\ i = NextId("register")
                  /\ i \notin born["register"] /\ rows'["register"][i] # Gone
                  /\ rows'["register"][i].concert # Null /\ rows'["register"][i].used = FALSE
                  /\ IsRow("register", rows'["register"][i])
                  /\ Allowed("register", i, rows'["register"][i])
               \/ rows'["register"][i] = Gone /\ ~Held("register", i)
               \/ /\ MarkUsed(p) /\ req[p].id = i /\ rows["register"][i] # Gone
                  /\ rows'["register"][i] = [rows["register"][i] EXCEPT !.used = TRUE]
    <2>1. RowStep("register", i, p)
      BY <1>1, <1>3, RowSteps
    <2>2. QED  BY <1>3, <2>1 DEF RowStep
  <1>4. CASE \E p \in Procs : TableStep(p) /\ rows'["register"][i] # rows["register"][i]
    <2>1. PICK p \in Procs : TableStep(p) /\ rows'["register"][i] # rows["register"][i]
      BY <1>4
    <2>2. CASE /\ MarkUsed(p) /\ req[p].id = i /\ rows["register"][i] # Gone
               /\ rows'["register"][i] = [rows["register"][i] EXCEPT !.used = TRUE]
      <3>1. IsRow("register", rows["register"][i])
        BY <1>1 DEF TypeInv, TablesTyped
      <3>2. QED  BY <2>2, <3>1, MarkedRow
    <2>3. QED  BY <1>3, <2>1, <2>2 DEF Numbered
  <1>5. QED  BY <1>2, <1>4, TableSteps

LEMMA RegistrationsNumbered ==
    ASSUME TypeInv, Numbered("register"), Next
    PROVE  Numbered("register")'
  <1>1. "register" \in Kinds
    BY KindsAre
  <1>2. CASE UNCHANGED <<rows, lineup, born>>
    BY <1>2 DEF Numbered
  <1>3. ASSUME NEW p \in Procs, TableStep(p), NEW i \in Ids, rows'["register"][i] # Gone
        PROVE  i \in born'["register"]
    BY <1>1, <1>3, RowSteps DEF RowStep, Numbered
  <1>4. QED  BY <1>2, <1>3, TableSteps DEF Numbered

LEMMA RegistrationsKeepDiffering ==
    ASSUME TypeInv, Numbered("register"), RegistrationsDiffer, Next
    PROVE  RegistrationsDiffer'
  <1>1. "register" \in Kinds /\ Entities["register"].unique = {"concert", "name"}
    BY KindsAre DEF Entities, RegisterEntity
  <1> DEFINE old == rows["register"]
             new == rows'["register"]
             n == NextId("register")
             Same(i) == new[i].concert = old[i].concert /\ new[i].name = old[i].name
  <1>3. ASSUME NEW i \in Ids, new[i] # Gone
        PROVE  \/ old[i] # Gone /\ Same(i)
               \/ i = n /\ new[i].concert # Null /\ IsRow("register", new[i])
                  /\ Allowed("register", i, new[i])
    BY <1>3, RegistrationsStay
  <1>4. \A i \in Ids : new[i] # Gone => new[i].concert # Null
    BY <1>3 DEF RegistrationsDiffer
  <1>5. ASSUME NEW i \in Ids, NEW j \in Ids, i # j, new[i] # Gone, new[j] # Gone,
               old[j] # Gone, Same(j)
        PROVE  new[i].concert # new[j].concert \/ new[i].name # new[j].name
    <2>1. CASE old[i] # Gone /\ Same(i)
      BY <1>5, <2>1 DEF RegistrationsDiffer
    <2>2. CASE i = n /\ new[i].concert # Null /\ IsRow("register", new[i])
               /\ Allowed("register", i, new[i])
      <3>1. new[i].name \in Names
        <4>1. "name" \in Entities["register"].columns /\ ColumnType("name") = Names
          BY DEF Entities, RegisterEntity, ColumnType
        <4>2. QED  BY <1>5, <2>2, <4>1 DEF IsRow
      <3>2. \E c \in {"concert", "name"} : new[i][c] = Null \/ new[i][c] # old[j][c]
        BY <1>1, <1>5, <2>2 DEF Allowed, Unique
      <3>3. QED  BY <1>5, <2>2, <3>1, <3>2, NothingAssumption
    <2>3. QED  BY <1>3, <1>5, <2>1, <2>2
  <1>6. ASSUME NEW i \in Ids, NEW j \in Ids \ {i}, new[i] # Gone, new[j] # Gone
        PROVE  new[i].concert # new[j].concert \/ new[i].name # new[j].name
    BY <1>3, <1>5, <1>6
  <1>7. QED  BY <1>4, <1>6 DEF RegistrationsDiffer

\* A request comes to marking the registration by placing the order.
LEMMA MarkersStay ==
    ASSUME TypeInv, Next, NEW p \in Procs, pc'[p] = "markUsed"
    PROVE  req'[p] = req[p] /\ (pc[p] = "markUsed" \/ PlaceOrder(p))
  <1>1. CASE UNCHANGED <<catalogueVars, mediaVars, registrationVars>>
    BY <1>1 DEF catalogueVars, requestVars
  <1>2. CASE \A q \in Procs : Quits(q)
    BY <1>2 DEF Quits
  <1>3. ASSUME NEW q \in Procs, q # p, Acts(q)
        PROVE  pc'[p] = pc[p] /\ req'[p] = req[p]
    BY <1>3, ActsLocally, FunctionsOfProcs DEF Locally
  <1>4. CASE Arrive(p)
    <2>1. PICK r \in offered.requests : Start(p, r)
      BY <1>4 DEF Arrive
    <2>2. IsRequest(r) /\ r.handler \in Handlers
      BY OffersAssumption DEF TypeInv, TablesTyped, IsRequest
    <2>3. pc'[p] = r.handler
      BY <2>1, FunctionsOfProcs DEF Start, GoTo
    <2>4. QED  BY <2>2, <2>3 DEF Handlers, Creations, Changes, Deletions, Uploads, Removals,
                Lineups, Mails
  <1>5. CASE CatalogueAlone(p)
    <2>1. /\ Answer(p) => pc'[p] = "idle"
          /\ \A step : GoTo(p, step) => pc'[p] = step
      BY FunctionsOfProcs DEF Answer, GoTo
    <2>2. QED
      BY <1>5, <2>1, CatalogueMoves DEF CatalogueAlone, ReadConcert, ReadArtist, SelectForSave
  <1>6. CASE RegistrationAlone(p)
    <2>1. /\ Answer(p) => pc'[p] = "idle"
          /\ GoTo(p, "order") => pc'[p] = "order"
      BY FunctionsOfProcs DEF Answer, GoTo
    <2>2. QED  BY <1>6, <2>1, RegistrationMoves DEF RegistrationAlone, requestVars
  <1>7. CASE MediaAlone(p) \/ StoreFault(p)
    <2>1. /\ Finish(p) => pc'[p] = "idle"
          /\ \A step : Step(p, step) => pc'[p] = step
      BY FunctionsOfProcs DEF Finish, Answer, Step, GoTo
    <2>2. pc'[p] \in {"idle", "count", "find", "put", "insertFile", "associate", "findImage",
                      "deleteObject", "deleteFile"}
      BY <1>7, <2>1 DEF MediaAlone, StoreFault, MediaStep, MediaFault, ReadOwner, CountPictures,
         PutObject, PutFails, InsertFile, InsertFileFails, InsertAssociation,
         InsertAssociationFails, FindPicture, FindImage, NextImage, DeleteObject, DeleteFails,
         DeleteFile, DeleteFileFails
    <2>3. QED  BY <2>2
  <1>8. CASE \E q \in Procs : Acts(q)
    BY <1>3, <1>4, <1>5, <1>6, <1>7, <1>8 DEF Acts
  <1>9. QED  BY <1>1, <1>2, <1>8, RequestSteps

\* The order that is placed is one more.
LEMMA OneMoreOrder ==
    ASSUME TypeInv, Numbered("order"), NEW p \in Procs, PlaceOrder(p), NEW o, o = NextId("order")
    PROVE  /\ req[p].id \in Ids /\ o \in Ids
           /\ rows'["order"][o] = [register |-> req[p].id]
           /\ Orders' = Orders \cup {o} /\ o \notin Orders
           /\ \A i \in Ids : rows'["register"][i] = rows["register"][i]
  <1>1. /\ req[p].id \in Ids /\ o \in Ids \ born["order"]
        /\ "order" \in Kinds /\ "register" \in Kinds
    BY OrderWrites, KindsAre
  <1>2. [register |-> req[p].id] # Gone
    BY OrderWrites
  <1>3. /\ \A i \in Ids : rows'["order"][i] =
              IF i = o THEN [register |-> req[p].id] ELSE rows["order"][i]
        /\ \A i \in Ids : rows'["register"][i] = rows["register"][i]
    BY <1>1, OrderWrites
  <1>4. rows'["order"][o] # Gone /\ rows'["order"][o].register # Null
    <2>1. rows'["order"][o] = [register |-> req[p].id]
      BY <1>1, <1>3
    <2>2. req[p].id # Null
      BY <1>1, BoundsAssumption, NothingAssumption
    <2>3. QED  BY <1>2, <2>1, <2>2
  <1>5. Orders' = {i \in Ids : rows'["order"][i] # Gone /\ rows'["order"][i].register # Null}
    BY DEF Orders
  <1>6. Orders' = Orders \cup {o}
    BY <1>1, <1>3, <1>4, <1>5 DEF Orders
  <1>7. o \notin Orders
    BY <1>1 DEF Orders, Numbered
  <1>8. QED  BY <1>1, <1>3, <1>6, <1>7

\* An order refers to a registration that is there.
LEMMA OrdersRefer ==
    ASSUME TypeInv, ReferencesHold, NEW o \in Orders
    PROVE  /\ rows["order"][o].register \in Ids
           /\ rows["register"][rows["order"][o].register] # Gone
           /\ Held("register", rows["order"][o].register)
  <1>1. "order" \in Kinds /\ o \in Ids /\ rows["order"][o] # Gone
        /\ rows["order"][o].register # Null
    BY KindsAre DEF Orders
  <1>2. IsRow("order", rows["order"][o])
    BY <1>1 DEF TypeInv, TablesTyped
  <1>3. /\ "register" \in DOMAIN Entities["order"].refs
        /\ Entities["order"].refs["register"] = "register"
    BY OrderRefs
  <1>4. rows["order"][o].register \in Ids
    BY <1>1, <1>2, <1>3, RefsAreIds
  <1>5. rows["register"][rows["order"][o].register] # Gone
    BY <1>1, <1>3 DEF ReferencesHold, ReferencesHoldIn, RefsFoundIn, FoundIn
  <1>6. Held("register", rows["order"][o].register)
    BY <1>1, <1>3 DEF Held
  <1>7. QED  BY <1>4, <1>5, <1>6

LEMMA OrderStep ==
    ASSUME TypeInv, ReferencesHold, OrderInv, Next
    PROVE  OrderInv'
  <1>1. /\ Numbered("order")' /\ Numbered("register")' /\ RegistrationsDiffer'
        /\ Orders \subseteq Orders'
        /\ \A o \in Orders : rows'["order"][o] = rows["order"][o]
    BY OrdersStay, RegistrationsNumbered, RegistrationsKeepDiffering DEF OrderInv, Orders
  <1>2. MarkersOrdered'
    <2>1. ASSUME NEW p \in Procs, pc'[p] = "markUsed"
          PROVE  \E o \in Orders' : rows'["order"][o].register = req'[p].id
      <3>1. CASE pc[p] = "markUsed" /\ req'[p] = req[p]
        BY <1>1, <3>1 DEF OrderInv, MarkersOrdered
      <3>2. CASE PlaceOrder(p) /\ req'[p] = req[p]
        <4> DEFINE o == NextId("order")
        <4>1. o \in Orders' /\ rows'["order"][o] = [register |-> req[p].id]
          BY <3>2, OneMoreOrder DEF OrderInv
        <4>2. QED  BY <3>2, <4>1
      <3>3. QED  BY <2>1, <3>1, <3>2, MarkersStay
    <2>2. QED  BY <2>1 DEF MarkersOrdered
  <1>3. UsedMeansOrdered'
    <2>1. ASSUME NEW i \in Ids, rows'["register"][i] # Gone, rows'["register"][i].used
          PROVE  \E o \in Orders' : rows'["order"][o].register = i
      <3>1. \/ rows["register"][i] # Gone /\ rows["register"][i].used
            \/ \E p \in Procs : pc[p] = "markUsed" /\ req[p].id = i
        BY <2>1, RegistrationsStay DEF OrderInv, MarkUsed
      <3>2. \E o \in Orders : rows["order"][o].register = i
        BY <3>1 DEF OrderInv, UsedMeansOrdered, MarkersOrdered
      <3>3. QED  BY <1>1, <3>2
    <2>2. QED  BY <2>1 DEF UsedMeansOrdered
  <1>4. ASSUME NEW o \in Orders
        PROVE  Pair(o)' = Pair(o)
    <2> DEFINE i == rows["order"][o].register
    <2>1. i \in Ids /\ rows["register"][i] # Gone /\ Held("register", i)
      BY OrdersRefer
    <2>2. /\ rows'["register"][i].concert = rows["register"][i].concert
          /\ rows'["register"][i].name = rows["register"][i].name
      BY <2>1, RegistrationsStay DEF OrderInv
    <2>3. QED  BY <1>1, <2>2 DEF Pair
  <1>5. CASE \E p \in Procs : PlaceOrder(p)
    <2>1. PICK p \in Procs : PlaceOrder(p)
      BY <1>5
    <2>2. PICK o : o = NextId("order")
      OBVIOUS
    <2>3. PICK i : i = req[p].id
      OBVIOUS
    <2>4. /\ o \in Ids /\ i \in Ids
          /\ rows'["order"][o] = [register |-> i]
          /\ Orders' = Orders \cup {o} /\ o \notin Orders
          /\ \A j \in Ids : rows'["register"][j] = rows["register"][j]
      BY <2>1, <2>2, <2>3, OneMoreOrder DEF OrderInv
    <2>5. \A q \in Orders : rows["order"][q].register # i
      <3>1. /\ Entities["order"].unique = {"register"}
            /\ Allowed("order", o, [register |-> i])
        BY <2>1, <2>2, <2>3 DEF PlaceOrder, Entities, OrderEntity
      <3>2. Unique("order", o, [register |-> i])
        BY <3>1 DEF Allowed
      <3>3. QED
        BY <2>4, <3>1, <3>2, BoundsAssumption, NothingAssumption DEF Unique, Orders
    <2>6. OrdersDiffer'
      BY <1>1, <2>4, <2>5 DEF OrdersDiffer, OrderInv
    <2>7. Pair(o)' = <<Registration(p).concert, Registration(p).name>>
      <3>1. Pair(o)' = <<rows'["register"][rows'["order"][o].register].concert,
                         rows'["register"][rows'["order"][o].register].name>>
        BY DEF Pair
      <3>2. rows'["order"][o].register = i /\ rows'["register"][i] = rows["register"][i]
        BY <2>4
      <3>3. QED  BY <2>3, <3>1, <3>2 DEF Registration
    <2>8. ordered' = ordered \cup {Pair(o)'}
      BY <2>1, <2>7 DEF PlaceOrder
    <2>9. ordered' = {Pair(q)' : q \in Orders'}
      <3>1. ordered = {Pair(q) : q \in Orders}
        BY DEF OrderInv
      <3>2. {Pair(q) : q \in Orders} = {Pair(q)' : q \in Orders}
        BY <1>4
      <3>3. QED  BY <2>4, <2>8, <3>1, <3>2
    <2>10. QED  BY <1>1, <1>2, <1>3, <2>6, <2>9 DEF OrderInv
  <1>6. CASE \A p \in Procs : ~PlaceOrder(p)
    <2>1. ordered' = ordered
      BY <1>6, RegistrationVarsSteps DEF registrationVars, SendTickets
    <2>2. Orders' = Orders
      BY <1>6, OrdersStay DEF OrderInv
    <2>3. OrdersDiffer'
      BY <1>1, <2>2 DEF OrdersDiffer, OrderInv
    <2>4. ordered' = {Pair(q)' : q \in Orders'}
      BY <1>4, <2>1, <2>2 DEF OrderInv
    <2>5. QED  BY <1>1, <1>2, <1>3, <2>3, <2>4 DEF OrderInv
  <1>7. QED  BY <1>5, <1>6

LEMMA OrderInvHolds == Spec => []OrderInv
  <1>1. Init => OrderInv
    <2> SUFFICES ASSUME Init  PROVE OrderInv
      OBVIOUS
    <2>1. Orders = {} /\ \A i \in Ids : rows["register"][i] = Gone
      BY TablesAssumption DEF Init, CatalogueInit, Orders
    <2>2. QED
      BY <2>1, KindsAre
         DEF Init, CatalogueInit, RegistrationInit, OrderInv, Numbered, UsedMeansOrdered,
             MarkersOrdered, RegistrationsDiffer, OrdersDiffer
  <1>2. TypeInv /\ ReferencesHold /\ OrderInv /\ [Next]_backofficeVars => OrderInv'
    <2>1. CASE UNCHANGED backofficeVars
      <3>1. UNCHANGED <<rows, born, pc, req, ordered>>
        BY <2>1 DEF backofficeVars, catalogueVars, tableVars, requestVars, registrationVars
      <3>2. Orders' = Orders /\ \A o \in Orders : Pair(o)' = Pair(o)
        BY <3>1 DEF Orders, Pair
      <3>3. QED
        BY <3>1, <3>2 DEF OrderInv, Numbered, UsedMeansOrdered, MarkersOrdered,
           RegistrationsDiffer, OrdersDiffer
    <2>2. QED  BY <2>1, OrderStep
  <1>3. QED
    BY <1>1, <1>2, InitTypeInv, NextTypeInv, ReferencesAlwaysHold, PTL DEF Spec

\* In every run a registration is marked used only when its order exists.
THEOREM UsedRegistrationsAreOrdered == Spec => []UsedMeansOrdered
  BY OrderInvHolds, PTL DEF OrderInv

\* In every run there are as many orders made with a registration as concerts
\* and addresses they were made for: the foreign key keeps a registration that
\* has an order, and the unique constraints its concert and address apart.
THEOREM OneOrderForAnAddress == Spec => []OneOrderPerAddress
  <1>1. ASSUME TypeInv, ReferencesHold, OrderInv
        PROVE  OneOrderPerAddress
    <2> DEFINE f == [o \in Orders |-> Pair(o)]
    <2>1. IsFiniteSet(Orders)
      BY BoundsAssumption, FS_Subset DEF Orders
    <2>2. ordered = {Pair(o) : o \in Orders}
      BY <1>1 DEF OrderInv
    <2>3. f \in Surjection(Orders, ordered)
      BY <2>2 DEF Surjection
    <2>4. ASSUME NEW o \in Orders, NEW q \in Orders, o # q
          PROVE  Pair(o) # Pair(q)
      <3>1. /\ rows["order"][o].register \in Ids /\ rows["order"][q].register \in Ids
            /\ rows["register"][rows["order"][o].register] # Gone
            /\ rows["register"][rows["order"][q].register] # Gone
        BY <1>1, OrdersRefer
      <3>2. rows["order"][o].register # rows["order"][q].register
        BY <1>1, <2>4 DEF OrderInv, OrdersDiffer
      <3>3. QED  BY <1>1, <3>1, <3>2 DEF OrderInv, RegistrationsDiffer, Pair
    <2>5. f \in Injection(Orders, ordered)
      BY <2>3, <2>4 DEF Injection, Surjection, IsInjective
    <2>6. QED  BY <2>1, <2>3, <2>5, FS_Surjection DEF OneOrderPerAddress
  <1>2. QED
    BY <1>1, InitTypeInv, NextTypeInv, OrderInvHolds, ReferencesAlwaysHold, PTL DEF Spec

-----------------------------------------------------------------------------
(* StoreMatchesFiles                                                         *)

Moving == {"insertFile", "associate", "deleteFile"}

Clean(k) == k \notin store /\ k \notin file /\ association[k] = Gone

\* An object that is being uploaded is known to one request; what a removal is
\* about to delete from file is in the store no more.
Unmade == \A k \in Keys : k > uploads => Clean(k)
Made   == \A p \in Procs : key[p] # Null => key[p] <= uploads
Fresh(p) ==
    pc[p] \in {"insertFile", "associate"} =>
        /\ key[p] \in store /\ association[key[p]] = Gone
        /\ key[p] \in file <=> pc[p] = "associate"
        /\ \A q \in Procs \ {p} : key[q] # key[p]
Emptied(p) == pc[p] = "deleteFile" => key[p] \notin store

PicturesInv ==
    /\ Unmade
    /\ Made
    /\ \A p \in Procs : Fresh(p)
    /\ \A p \in Procs : Emptied(p)
    /\ StoreMatchesFiles

\* What a request does to the bucket and to what it is at.
Waits(p) ==
    /\ UNCHANGED bucketVars
    /\ pc[p] \notin Moving /\ pc'[p] \notin Moving
    /\ \/ key'[p] = Null
       \/ key'[p] \in Keys /\ association[key'[p]] # Gone
Puts(p) ==
    /\ pc[p] \notin Moving /\ pc'[p] = "insertFile"
    /\ uploads + 1 \in Keys /\ uploads' = uploads + 1 /\ key'[p] = uploads + 1
    /\ store' = store \cup {uploads + 1}
    /\ UNCHANGED <<file, association, cut>>
Files(p) ==
    /\ pc[p] = "insertFile" /\ pc'[p] = "associate" /\ key'[p] = key[p]
    /\ file' = file \cup {key[p]}
    /\ UNCHANGED <<store, association, uploads, cut>>
Associates(p) ==
    /\ pc[p] = "associate" /\ pc'[p] \notin Moving /\ key'[p] = Null
    /\ association' = [association EXCEPT ![key[p]] = Owner(p)]
    /\ Owner(p) # Gone
    /\ UNCHANGED <<store, file, uploads, cut>>
Empties(p) ==
    /\ pc[p] = "deleteObject" /\ pc'[p] = "deleteFile" /\ key'[p] = key[p]
    /\ store' = store \ {key[p]}
    /\ UNCHANGED <<file, association, uploads, cut>>
Unlinks(p) ==
    /\ pc[p] = "deleteFile" /\ pc'[p] \notin Moving /\ key'[p] = Null
    /\ file' = file \ {key[p]}
    /\ association' = [association EXCEPT ![key[p]] = Gone]
    /\ cut' = cut \ {key[p]}
    /\ UNCHANGED <<store, uploads>>
Breaks(p) ==
    /\ pc[p] \in Moving /\ pc'[p] \notin Moving /\ key'[p] = Null
    /\ cut' = cut \cup {key[p]}
    /\ UNCHANGED <<store, file, association, uploads>>

PictureEffect(p) ==
    \/ Waits(p) \/ Puts(p) \/ Files(p) \/ Associates(p) \/ Empties(p) \/ Unlinks(p) \/ Breaks(p)

LEMMA PictureEffects ==
    ASSUME TypeInv, NEW p \in Procs, MediaStep(p) \/ MediaFault(p)
    PROVE  PictureEffect(p)
  <1> USE DEF PictureEffect
  <1>1. /\ Finish(p) => pc'[p] = "idle" /\ key'[p] = Null
        /\ \A step : Step(p, step) => pc'[p] = step
        /\ \A k : key' = [key EXCEPT ![p] = k] => key'[p] = k
        /\ UNCHANGED loopVars => key'[p] = key[p]
    BY FunctionsOfProcs DEF Finish, Answer, Step, GoTo, loopVars
  <1>2. NextImage(p) => pc'[p] \notin Moving /\ key'[p] = Null
    BY <1>1 DEF NextImage, Moving
  <1>3. Looping(p)
    BY DEF TypeInv
  <1>4. CASE ReadOwner(p)
    <2>1. pc[p] \notin Moving /\ pc'[p] \notin Moving /\ UNCHANGED bucketVars
      BY <1>1, <1>4 DEF ReadOwner, Moving
    <2>2. key[p] = Null
      BY <1>3, <1>4 DEF ReadOwner, Looping
    <2>3. key'[p] = Null
      BY <1>1, <1>4, <2>2 DEF ReadOwner
    <2>4. QED  BY <2>1, <2>3 DEF Waits
  <1>5. CASE CountPictures(p)
    <2>1. pc[p] \notin Moving /\ pc'[p] \notin Moving /\ UNCHANGED bucketVars
      BY <1>1, <1>5 DEF CountPictures, Moving
    <2>2. key[p] = Null
      BY <1>3, <1>5 DEF CountPictures, Looping
    <2>3. key'[p] = Null
      BY <1>1, <1>5, <2>2 DEF CountPictures
    <2>4. QED  BY <2>1, <2>3 DEF Waits
  <1>6. CASE PutObject(p)
    <2>1. uploads + 1 \in Keys
      BY <1>6, BoundsAssumption DEF PutObject, Keys, TypeInv, PicturesTyped, MediaTypeOK
    <2>2. QED  BY <1>1, <1>6, <2>1 DEF PutObject, Puts, Moving
  <1>7. CASE PutFails(p)
    BY <1>1, <1>7 DEF PutFails, Waits, Moving
  <1>8. CASE InsertFile(p)
    BY <1>1, <1>8 DEF InsertFile, Files
  <1>9. CASE InsertAssociation(p)
    <2>1. Owner(p) # Gone
      BY <1>9, PictureRequest DEF InsertAssociation, Adding
    <2>2. QED  BY <1>1, <1>9, <2>1 DEF InsertAssociation, Associates, Moving
  <1>10. CASE FindPicture(p)
    <2>1. Owner(p) # Gone
      BY <1>10, PictureRequest DEF FindPicture, Taking, Removals
    <2>2. QED  BY <1>1, <1>10, <2>1 DEF FindPicture, Waits, Moving, Shown
  <1>11. CASE FindImage(p)
    <2>1. /\ Owner(p) # Gone
          /\ req[p].handler = "deleteConcertImages" /\ req[p].fileIds \in Seq(Keys)
          /\ pc[p] # "idle"
      BY <1>11, PictureRequest DEF FindImage, Taking, Removals, Handlers
    <2>2. at[p] \in 1..Len(req[p].fileIds)
      BY <1>3, <1>11, <2>1 DEF Looping, FindImage
    <2>3. req[p].fileIds[at[p]] \in Keys
      BY <2>1, <2>2, ElementOfSeq
    <2>4. QED  BY <1>1, <1>2, <1>11, <2>1, <2>3 DEF FindImage, Waits, Moving
  <1>12. CASE DeleteObject(p)
    BY <1>1, <1>12 DEF DeleteObject, Empties
  <1>13. CASE DeleteFails(p)
    BY <1>2, <1>13 DEF DeleteFails, Waits, Moving
  <1>14. CASE DeleteFile(p)
    BY <1>2, <1>14 DEF DeleteFile, Unlinks
  <1>15. CASE InsertFileFails(p) \/ InsertAssociationFails(p)
    BY <1>1, <1>15 DEF InsertFileFails, InsertAssociationFails, Breaks, Moving
  <1>16. CASE DeleteFileFails(p)
    BY <1>2, <1>16 DEF DeleteFileFails, Breaks, Moving
  <1>17. QED
    BY <1>4, <1>5, <1>6, <1>7, <1>8, <1>9, <1>10, <1>11, <1>12, <1>13, <1>14, <1>15, <1>16
       DEF MediaStep, MediaFault

\* The other requests leave the bucket alone.
LEMMA ActEffects ==
    ASSUME TypeInv, NEW p \in Procs, Acts(p)
    PROVE  PictureEffect(p)
  <1>1. CASE MediaAlone(p) \/ StoreFault(p)
    BY <1>1, PictureEffects DEF MediaAlone, StoreFault
  <1>2. CASE Arrive(p) \/ CatalogueAlone(p) \/ RegistrationAlone(p)
    <2>1. UNCHANGED mediaVars
      BY <1>2 DEF Arrive, CatalogueAlone, RegistrationAlone
    <2>2. pc[p] \in Quiet \cup {"idle"}
      <3>1. CASE Arrive(p)
        BY <3>1 DEF Arrive, Start
      <3>2. CASE CatalogueAlone(p)
        <4>1. ReadConcert(p) \/ ReadArtist(p) \/ SelectForSave(p) => pc[p] \in Lineups \cup Saving
          BY DEF ReadConcert, ReadArtist, SelectForSave, Saving
        <4>2. QED  BY <3>2, <4>1, CatalogueMoves, QuietAre DEF CatalogueAlone
      <3>3. CASE RegistrationAlone(p)
        BY <3>3, RegistrationMoves, QuietAre DEF RegistrationAlone, Ordering
      <3>4. QED  BY <1>2, <3>1, <3>2, <3>3
    <2>3. key[p] = Null
      BY <2>2, QuietLoops DEF TypeInv, Served
    <2>4. key'[p] = Null
      BY <2>1, <2>3 DEF mediaVars, loopVars
    <2>5. Looping(p) /\ Looping(p)'
      BY ActsLocally DEF TypeInv, RequestsKeep
    <2>6. Null \notin Keys
      BY BoundsAssumption, NothingAssumption DEF Keys
    <2>7. pc[p] \notin Moving /\ pc'[p] \notin Moving
      BY <2>3, <2>4, <2>5, <2>6 DEF Looping, Moving
    <2>8. QED  BY <2>1, <2>4, <2>7 DEF Waits, PictureEffect, mediaVars
  <1>3. QED  BY <1>1, <1>2 DEF Acts

LEMMA PicturesStep ==
    ASSUME TypeInv, PicturesInv, NEW p \in Procs, Acts(p)
    PROVE  PicturesInv'
  <1>1. /\ Keys \subseteq Nat /\ Null \notin Keys /\ uploads \in Nat
        /\ key \in [Procs -> Keys \cup {Null}]
        /\ association = [k \in Keys |-> association[k]]
    BY BoundsAssumption, NothingAssumption DEF Keys, TypeInv, PicturesTyped, MediaTypeOK
  <1>2. \A q \in Procs \ {p} : pc'[q] = pc[q] /\ key'[q] = key[q]
    BY ActsLocally, FunctionsOfProcs DEF Locally
  <1>3. pc[p] \in Moving \cup {"deleteObject"} => key[p] \in Keys /\ key[p] <= uploads
    BY <1>1 DEF TypeInv, Looping, Moving, PicturesInv, Made
  <1>4. CASE Waits(p)
    <2>1. key'[p] # Null =>
             key'[p] \in Keys /\ key'[p] <= uploads /\ association[key'[p]] # Gone
      BY <1>1, <1>4 DEF Waits, PicturesInv, Unmade, Clean
    <2>2. Unmade' /\ Made'
      BY <1>1, <1>2, <1>4, <2>1 DEF Waits, bucketVars, PicturesInv, Unmade, Clean, Made
    <2>3. \A q \in Procs : Fresh(q)' /\ Emptied(q)'
      <3>1. Fresh(p)' /\ Emptied(p)'
        BY <1>4 DEF Waits, Moving, Fresh, Emptied
      <3>2. ASSUME NEW q \in Procs \ {p}  PROVE Fresh(q)' /\ Emptied(q)'
        <4>1. Fresh(q) /\ Emptied(q)
          BY DEF PicturesInv
        <4>2. pc[q] \in {"insertFile", "associate"} => key[q] \in Keys
          BY DEF TypeInv, Looping
        <4>3. QED
          BY <1>1, <1>2, <1>4, <2>1, <4>1, <4>2 DEF Waits, bucketVars, Fresh, Emptied
      <3>3. QED  BY <3>1, <3>2
    <2>4. StoreMatchesFiles'
      BY <1>2, <1>4 DEF Waits, Moving, bucketVars, PicturesInv, StoreMatchesFiles, InBetween
    <2>5. QED  BY <2>2, <2>3, <2>4 DEF PicturesInv
  <1>5. CASE Puts(p)
    <2>1. Unmade' /\ Made'
      BY <1>1, <1>2, <1>5 DEF Puts, PicturesInv, Unmade, Clean, Made
    <2>2. \A q \in Procs : key[q] # uploads + 1
      BY <1>1, <1>5 DEF Puts, PicturesInv, Made
    <2>3. \A q \in Procs : Fresh(q)' /\ Emptied(q)'
      <3>1. Fresh(p)' /\ Emptied(p)'
        BY <1>1, <1>2, <1>5, <2>2 DEF Puts, PicturesInv, Unmade, Clean, Fresh, Emptied
      <3>2. ASSUME NEW q \in Procs \ {p}  PROVE Fresh(q)' /\ Emptied(q)'
        <4>1. Fresh(q) /\ Emptied(q)
          BY DEF PicturesInv
        <4>2. QED  BY <1>1, <1>2, <1>5, <2>2, <4>1 DEF Puts, Fresh, Emptied
      <3>3. QED  BY <3>1, <3>2
    <2>4. StoreMatchesFiles'
      BY <1>2, <1>5 DEF Puts, Moving, PicturesInv, StoreMatchesFiles, InBetween
    <2>5. QED  BY <2>1, <2>3, <2>4 DEF PicturesInv
  <1>6. CASE Files(p)
    <2>1. key[p] \in Keys /\ key[p] <= uploads
      BY <1>3, <1>6 DEF Files, Moving
    <2>2. Unmade' /\ Made'
      BY <1>1, <1>2, <1>6, <2>1 DEF Files, PicturesInv, Unmade, Clean, Made
    <2>3. Fresh(p)
      BY DEF PicturesInv
    <2>4. \A q \in Procs : Fresh(q)' /\ Emptied(q)'
      <3>1. Fresh(p)' /\ Emptied(p)'
        BY <1>2, <1>6, <2>3 DEF Files, Fresh, Emptied
      <3>2. ASSUME NEW q \in Procs \ {p}  PROVE Fresh(q)' /\ Emptied(q)'
        <4>1. Fresh(q) /\ Emptied(q)
          BY DEF PicturesInv
        <4>2. key[q] # key[p]
          BY <1>6, <2>3 DEF Files, Fresh
        <4>3. QED  BY <1>2, <1>6, <4>1, <4>2 DEF Files, Fresh, Emptied
      <3>3. QED  BY <3>1, <3>2
    <2>5. StoreMatchesFiles'
      BY <1>2, <1>6 DEF Files, PicturesInv, StoreMatchesFiles, InBetween
    <2>6. QED  BY <2>2, <2>4, <2>5 DEF PicturesInv
  <1>7. CASE Associates(p)
    <2>1. key[p] \in Keys /\ key[p] <= uploads
      BY <1>3, <1>7 DEF Associates, Moving
    <2>2. Unmade' /\ Made'
      BY <1>1, <1>2, <1>7, <2>1 DEF Associates, PicturesInv, Unmade, Clean, Made
    <2>3. Fresh(p)
      BY DEF PicturesInv
    <2>4. \A q \in Procs : Fresh(q)' /\ Emptied(q)'
      <3>1. Fresh(p)' /\ Emptied(p)'
        BY <1>7 DEF Associates, Moving, Fresh, Emptied
      <3>2. ASSUME NEW q \in Procs \ {p}  PROVE Fresh(q)' /\ Emptied(q)'
        <4>1. Fresh(q) /\ Emptied(q)
          BY DEF PicturesInv
        <4>2. key[q] # key[p]
          BY <1>7, <2>3 DEF Associates, Fresh
        <4>3. pc[q] \in {"insertFile", "associate"} => key[q] \in Keys
          BY DEF TypeInv, Looping
        <4>4. QED  BY <1>1, <1>2, <1>7, <4>1, <4>2, <4>3 DEF Associates, Fresh, Emptied
      <3>3. QED  BY <3>1, <3>2
    <2>5. StoreMatchesFiles'
      <3>1. key[p] \in store' /\ key[p] \in file' /\ association'[key[p]] # Gone
        BY <1>1, <1>7, <2>1, <2>3 DEF Associates, Fresh
      <3>2. \A k \in Keys \ {key[p]} : association'[k] = association[k]
        BY <1>1, <1>7
           DEF Associates
      <3>3. QED  BY <1>2, <1>7, <3>1, <3>2 DEF Associates, PicturesInv, StoreMatchesFiles, InBetween
    <2>6. QED  BY <2>2, <2>4, <2>5 DEF PicturesInv
  <1>8. CASE Empties(p)
    <2>1. key[p] \in Keys /\ key[p] <= uploads
      BY <1>3, <1>8 DEF Empties
    <2>2. Unmade' /\ Made'
      BY <1>1, <1>2, <1>8, <2>1 DEF Empties, PicturesInv, Unmade, Clean, Made
    <2>3. \A q \in Procs : Fresh(q)' /\ Emptied(q)'
      <3>1. Fresh(p)' /\ Emptied(p)'
        BY <1>8 DEF Empties, Fresh, Emptied
      <3>2. ASSUME NEW q \in Procs \ {p}  PROVE Fresh(q)' /\ Emptied(q)'
        <4>1. Fresh(q) /\ Emptied(q)
          BY DEF PicturesInv
        <4>2. QED  BY <1>2, <1>8, <4>1 DEF Empties, Fresh, Emptied
      <3>3. QED  BY <3>1, <3>2
    <2>4. StoreMatchesFiles'
      BY <1>2, <1>8 DEF Empties, PicturesInv, StoreMatchesFiles, InBetween
    <2>5. QED  BY <2>2, <2>3, <2>4 DEF PicturesInv
  <1>9. CASE Unlinks(p)
    <2>1. key[p] \in Keys /\ key[p] <= uploads /\ key[p] \notin store
      BY <1>3, <1>9 DEF Unlinks, Moving, PicturesInv, Emptied
    <2>2. Unmade' /\ Made'
      BY <1>1, <1>2, <1>9, <2>1 DEF Unlinks, PicturesInv, Unmade, Clean, Made
    <2>3. \A q \in Procs : Fresh(q)' /\ Emptied(q)'
      <3>1. Fresh(p)' /\ Emptied(p)'
        BY <1>9 DEF Unlinks, Moving, Fresh, Emptied
      <3>2. ASSUME NEW q \in Procs \ {p}  PROVE Fresh(q)' /\ Emptied(q)'
        <4>1. Fresh(q) /\ Emptied(q)
          BY DEF PicturesInv
        <4>2. pc[q] \in {"insertFile", "associate"} => key[q] \in Keys
          BY DEF TypeInv, Looping
        <4>3. QED  BY <1>1, <1>2, <1>9, <2>1, <4>1, <4>2 DEF Unlinks, Fresh, Emptied
      <3>3. QED  BY <3>1, <3>2
    <2>4. StoreMatchesFiles'
      <3>1. key[p] \notin store' /\ key[p] \notin file' /\ association'[key[p]] = Gone
        BY <1>1, <1>9, <2>1 DEF Unlinks
      <3>2. \A k \in Keys \ {key[p]} : association'[k] = association[k]
        BY <1>1, <1>9 DEF Unlinks
      <3>3. QED  BY <1>2, <1>9, <3>1, <3>2 DEF Unlinks, PicturesInv, StoreMatchesFiles, InBetween
    <2>5. QED  BY <2>2, <2>3, <2>4 DEF PicturesInv
  <1>10. CASE Breaks(p)
    <2>1. Unmade' /\ Made'
      BY <1>1, <1>2, <1>10 DEF Breaks, PicturesInv, Unmade, Clean, Made
    <2>2. \A q \in Procs : Fresh(q)' /\ Emptied(q)'
      <3>1. Fresh(p)' /\ Emptied(p)'
        BY <1>10 DEF Breaks, Moving, Fresh, Emptied
      <3>2. ASSUME NEW q \in Procs \ {p}  PROVE Fresh(q)' /\ Emptied(q)'
        <4>1. Fresh(q) /\ Emptied(q)
          BY DEF PicturesInv
        <4>2. pc[q] \in {"insertFile", "associate"} => key[q] \in Keys
          BY DEF TypeInv, Looping
        <4>3. QED  BY <1>1, <1>2, <1>10, <4>1, <4>2 DEF Breaks, Fresh, Emptied
      <3>3. QED  BY <3>1, <3>2
    <2>3. StoreMatchesFiles'
      BY <1>2, <1>10 DEF Breaks, PicturesInv, StoreMatchesFiles, InBetween
    <2>4. QED  BY <2>1, <2>2, <2>3 DEF PicturesInv
  <1>11. QED
    BY <1>4, <1>5, <1>6, <1>7, <1>8, <1>9, <1>10, ActEffects DEF PictureEffect

LEMMA PicturesHold == Spec => []PicturesInv
  <1>1. Init => PicturesInv
    BY DEF Init, MediaInit, CatalogueInit, PicturesInv, Unmade, Clean, Made, Fresh, Emptied,
       StoreMatchesFiles
  <1>2. TypeInv /\ PicturesInv /\ [Next]_backofficeVars => PicturesInv'
    <2> SUFFICES ASSUME TypeInv, PicturesInv, [Next]_backofficeVars
                 PROVE  PicturesInv'
      OBVIOUS
    <2>1. CASE UNCHANGED backofficeVars \/ UNCHANGED <<catalogueVars, mediaVars, registrationVars>>
      BY <2>1 DEF backofficeVars, catalogueVars, mediaVars, bucketVars, loopVars, PicturesInv,
         Unmade, Clean, Made, Fresh, Emptied, StoreMatchesFiles, InBetween
    <2>2. CASE ProcessEnds
      <3>1. /\ UNCHANGED <<store, file, association, uploads>>
            /\ \A p \in Procs : pc'[p] = "idle" /\ key'[p] = Null
            /\ cut' = cut \cup {key[p] : p \in {q \in Procs : InBetween(q)}}
        BY <2>2 DEF ProcessEnds, Crash, MediaCrash
      <3>2. \A p \in Procs : Fresh(p)' /\ Emptied(p)'
        BY <3>1 DEF Fresh, Emptied
      <3>3. Unmade' /\ Made'
        BY <3>1 DEF PicturesInv, Unmade, Clean, Made
      <3>4. StoreMatchesFiles'
        BY <3>1 DEF PicturesInv, StoreMatchesFiles
      <3>5. QED  BY <3>2, <3>3, <3>4 DEF PicturesInv
    <2>3. CASE \E p \in Procs : Acts(p)
      BY <2>3, PicturesStep
    <2>4. QED  BY <2>1, <2>2, <2>3, RequestSteps
  <1>3. QED  BY <1>1, <1>2, InitTypeInv, NextTypeInv, PTL DEF Spec

\* In every run, however uploads and removals overlap and whatever fails, the
\* bucket and the tables agree on every picture but those a request is at and
\* those at which a request was stopped between the two, by the end of the
\* process or by a statement that failed, and no removal has got to its end.
THEOREM StoreFollowsFiles == Spec => []StoreMatchesFiles
  BY PicturesHold, PTL DEF PicturesInv

-----------------------------------------------------------------------------
(* PicturesBounded                                                           *)

Uploading == {"put", "insertFile", "associate"}
Owners == [type : Types, id : Ids]

\* The files a request that has counted is still to associate, and those of
\* all requests for one owner.
Left(p) == IF pc[p] \in Uploading THEN at[p]..req[p].files ELSE {}
Pending(owner) ==
    {x \in Procs \X (1..MaxImages(owner.type)) : x[2] \in Left(x[1]) /\ Owner(x[1]) = owner}

\* A request that has counted fits into the limit alone; with what is there
\* the requests fit into as many limits as requests are served at a time.
CountsInv ==
    /\ \A p \in Procs : pc[p] \in Uploading => req[p].files <= MaxImages(Owner(p).type)
    /\ \A o \in Owners :
          Cardinality(Shown(o)) + Cardinality(Pending(o))
              <= MaxImages(o.type) * Cardinality(Procs)

\* What a request does to the pictures of an owner.
Counts(p) ==
    /\ pc[p] \notin Uploading /\ pc'[p] = "put" /\ req'[p] = req[p] /\ at'[p] = 1
    /\ Owner(p) \in Owners /\ req[p].files \in Nat
    /\ Cardinality(Shown(Owner(p))) + req[p].files <= MaxImages(Owner(p).type)
    /\ UNCHANGED association
Adds(p) ==
    /\ pc[p] = "associate" /\ key[p] \in Keys /\ association[key[p]] = Gone
    /\ association' = [association EXCEPT ![key[p]] = Owner(p)]
    /\ at[p] \in Left(p) /\ Left(p)' = Left(p) \ {at[p]}
    /\ pc'[p] \in Uploading => req'[p] = req[p]
Rests(p) ==
    /\ \A k \in Keys : association'[k] \in {association[k], Gone}
    /\ Left(p)' \subseteq Left(p)
    /\ pc'[p] \in Uploading => pc[p] \in Uploading /\ req'[p] = req[p]

LEMMA ShownIsFinite ==
    ASSUME NEW owner
    PROVE  IsFiniteSet(Shown(owner)) /\ Cardinality(Shown(owner)) \in Nat
  <1>1. IsFiniteSet(Keys)
    BY BoundsAssumption, FS_Interval DEF Keys
  <1>2. Shown(owner) \in SUBSET Keys
    BY DEF Shown
  <1>3. QED  BY <1>1, <1>2, FS_Subset, FS_CardinalityType

LEMMA PictureCounts ==
    ASSUME TypeInv, PicturesInv, NEW p \in Procs, MediaStep(p) \/ MediaFault(p)
    PROVE  Counts(p) \/ Adds(p) \/ Rests(p)
  <1>1. /\ Finish(p) => pc'[p] \notin Uploading
        /\ \A step : Step(p, step) => pc'[p] = step /\ req'[p] = req[p]
        /\ UNCHANGED loopVars => at'[p] = at[p]
        /\ \A n : at' = [at EXCEPT ![p] = n] => at'[p] = n
    BY FunctionsOfProcs DEF Finish, Answer, Step, GoTo, requestVars, loopVars, Uploading
  <1>2. NextImage(p) => pc'[p] \notin Uploading
    BY <1>1 DEF NextImage, Uploading
  <1>3. pc'[p] \notin Uploading => Left(p)' \subseteq Left(p)
    BY DEF Left
  <1>4. Looping(p) /\ association = [k \in Keys |-> association[k]]
    BY DEF TypeInv, PicturesTyped
  <1>5. CASE ReadOwner(p)
    <2>1. pc'[p] \notin Uploading /\ UNCHANGED association
      BY <1>1, <1>5 DEF ReadOwner, bucketVars, Uploading
    <2>2. QED  BY <1>3, <2>1 DEF Rests
  <1>6. CASE CountPictures(p)
    <2>1. UNCHANGED association
      BY <1>6 DEF CountPictures, bucketVars
    <2>2. CASE Finish(p)
      BY <1>1, <1>3, <2>1, <2>2 DEF Rests
    <2>3. CASE ~Finish(p)
      <3>1. /\ pc[p] \in {"count", "uploadFile", "uploadConcertImages"}
            /\ Cardinality(Shown(Owner(p))) + req[p].files <= MaxImages(Owner(p).type)
            /\ Step(p, "put") /\ UNCHANGED loopVars
        <4>1. /\ pc[p] \in {"count", "uploadFile", "uploadConcertImages"}
              /\ ~(Cardinality(Shown(Owner(p))) + req[p].files > MaxImages(Owner(p).type))
              /\ Step(p, "put") /\ UNCHANGED loopVars
          BY <1>6, <2>3 DEF CountPictures
        <4>2. /\ req[p].files \in Nat
              /\ MaxImages(Owner(p).type) \in Nat
          BY <4>1, PictureRequest DEF Adding, Uploads, MaxImages
        <4>3. Cardinality(Shown(Owner(p))) \in Nat
          BY ShownIsFinite
        <4>4. QED  BY <4>1, <4>2, <4>3
      <3>2. Owner(p) \in Owners /\ req[p].files \in Nat /\ req[p].handler \in DOMAIN Uploads
        BY <3>1, PictureRequest DEF Adding, Uploads, Owners
      <3>3. at[p] = 1
        BY <1>4, <3>1, <3>2 DEF Looping, Uploads
      <3>4. QED  BY <1>1, <2>1, <3>1, <3>2, <3>3 DEF Counts, Uploading
    <2>4. QED  BY <2>2, <2>3
  <1>7. CASE PutObject(p) \/ InsertFile(p)
    <2>1. /\ UNCHANGED association /\ pc[p] \in Uploading /\ pc'[p] \in Uploading
          /\ req'[p] = req[p] /\ at'[p] = at[p]
      BY <1>1, <1>7 DEF PutObject, InsertFile, loopVars, Uploading
    <2>2. QED  BY <2>1 DEF Rests, Left
  <1>8. CASE InsertAssociation(p)
    <2>1. /\ pc[p] = "associate" /\ association' = [association EXCEPT ![key[p]] = Owner(p)]
          /\ at[p] \in Left(p) /\ key[p] \in Keys /\ association[key[p]] = Gone
          /\ at[p] \in 1..req[p].files /\ Left(p) = at[p]..req[p].files
      BY <1>4, <1>8 DEF InsertAssociation, Looping, Left, Uploading, PicturesInv, Fresh
    <2>2. req[p].files \in Nat
      BY <2>1, PictureRequest DEF Adding
    <2>3. CASE at[p] = req[p].files
      <3>1. pc'[p] \notin Uploading
        BY <1>1, <1>8, <2>3 DEF InsertAssociation
      <3>2. Left(p)' = {} /\ Left(p) = {at[p]}
        BY <2>1, <2>2, <2>3, <3>1 DEF Left
      <3>3. QED  BY <2>1, <3>1, <3>2 DEF Adds
    <2>4. CASE at[p] # req[p].files
      <3>1. pc'[p] = "put" /\ req'[p] = req[p] /\ at'[p] = at[p] + 1
        BY <1>1, <1>8, <2>4 DEF InsertAssociation
      <3>2. Left(p)' = (at[p] + 1)..req[p].files
        BY <3>1 DEF Left, Uploading
      <3>3. Left(p)' = Left(p) \ {at[p]}
        BY <2>1, <2>2, <3>2
      <3>4. QED  BY <2>1, <3>1, <3>3 DEF Adds
    <2>5. QED  BY <2>3, <2>4
  <1>9. CASE \/ FindPicture(p) \/ FindImage(p) \/ DeleteObject(p) \/ DeleteFails(p)
             \/ DeleteFileFails(p) \/ PutFails(p) \/ InsertFileFails(p)
             \/ InsertAssociationFails(p)
    <2>1. UNCHANGED association
      BY <1>9 DEF FindPicture, FindImage, DeleteObject, DeleteFails, DeleteFileFails, PutFails,
         InsertFileFails, InsertAssociationFails, bucketVars
    <2>2. pc'[p] \notin Uploading
      BY <1>1, <1>2, <1>9
         DEF FindPicture, FindImage, DeleteObject, DeleteFails, DeleteFileFails, PutFails,
             InsertFileFails, InsertAssociationFails, Uploading
    <2>3. QED  BY <1>3, <2>1, <2>2 DEF Rests
  <1>10. CASE DeleteFile(p)
    <2>1. pc'[p] \notin Uploading /\ association' = [association EXCEPT ![key[p]] = Gone]
      BY <1>2, <1>10 DEF DeleteFile
    <2>2. \A k \in Keys : association'[k] \in {association[k], Gone}
      BY <1>4, <2>1
    <2>3. QED  BY <1>3, <2>1, <2>2 DEF Rests
  <1>11. QED
    BY <1>5, <1>6, <1>7, <1>8, <1>9, <1>10 DEF MediaStep, MediaFault

LEMMA ActCounts ==
    ASSUME TypeInv, PicturesInv, NEW p \in Procs, Acts(p)
    PROVE  Counts(p) \/ Adds(p) \/ Rests(p)
  <1>1. CASE MediaAlone(p) \/ StoreFault(p)
    BY <1>1, PictureCounts DEF MediaAlone, StoreFault
  <1>2. CASE Arrive(p) \/ CatalogueAlone(p) \/ RegistrationAlone(p)
    <2>1. UNCHANGED association
      BY <1>2 DEF Arrive, CatalogueAlone, RegistrationAlone, mediaVars, bucketVars
    <2>2. /\ Answer(p) => pc'[p] \notin Uploading
          /\ \A step : GoTo(p, step) => pc'[p] = step
      BY FunctionsOfProcs DEF Answer, GoTo, Uploading
    <2>3. pc'[p] \notin Uploading
      <3>1. CASE Arrive(p)
        <4>1. PICK r \in offered.requests : Start(p, r)
          BY <3>1 DEF Arrive
        <4>2. r.handler \in Handlers
          BY OffersAssumption DEF TypeInv, TablesTyped, IsRequest
        <4>3. Handlers \cap Uploading = {}
          BY DEF Handlers, Creations, Changes, Deletions, Uploads, Removals, Lineups, Mails,
             Uploading
        <4>4. QED  BY <2>2, <4>1, <4>2, <4>3 DEF Start
      <3>2. CASE CatalogueAlone(p)
        <4>1. ReadConcert(p) \/ ReadArtist(p) \/ SelectForSave(p) => pc'[p] \notin Uploading
          BY <2>2 DEF ReadConcert, ReadArtist, SelectForSave, Uploading
        <4>2. QED  BY <2>2, <3>2, <4>1, CatalogueMoves DEF CatalogueAlone
      <3>3. CASE RegistrationAlone(p)
        BY <2>2, <3>3, RegistrationMoves DEF RegistrationAlone, Uploading
      <3>4. QED  BY <1>2, <3>1, <3>2, <3>3
    <2>4. QED  BY <2>1, <2>3 DEF Rests, Left
  <1>3. QED  BY <1>1, <1>2 DEF Acts

LEMMA IntervalsAreFinite ==
    ASSUME NEW n \in Nat
    PROVE  IsFiniteSet(1..n) /\ Cardinality(1..n) = n
  BY FS_Interval

\* At most m elements for each in a set, and n for one of them.
LEMMA CountByElement ==
    ASSUME NEW S, IsFiniteSet(S), NEW p \in S, NEW m \in Nat, NEW n \in Nat,
           NEW T \in SUBSET (((S \ {p}) \X (1..m)) \cup ({p} \X (1..n)))
    PROVE  /\ IsFiniteSet(T) /\ Cardinality(T) \in Nat
           /\ Cardinality(T) <= (Cardinality(S) - 1) * m + n
  <1> DEFINE Others == (S \ {p}) \X (1..m)
             Mine == {p} \X (1..n)
  <1>1. /\ IsFiniteSet(S \ {p}) /\ Cardinality(S \ {p}) = Cardinality(S) - 1
        /\ Cardinality(S) \in Nat
    BY FS_RemoveElement, FS_CardinalityType
  <1>2. /\ IsFiniteSet(1..m) /\ Cardinality(1..m) = m
        /\ IsFiniteSet(1..n) /\ Cardinality(1..n) = n
    BY IntervalsAreFinite
  <1>3. IsFiniteSet(Others) /\ Cardinality(Others) = Cardinality(S \ {p}) * Cardinality(1..m)
    BY <1>1, <1>2, FS_Product
  <1>4. IsFiniteSet(Mine) /\ Cardinality(Mine) = n
    <2>1. IsFiniteSet({p}) /\ Cardinality({p}) = 1
      BY FS_Singleton
    <2>2. IsFiniteSet(Mine) /\ Cardinality(Mine) = Cardinality({p}) * Cardinality(1..n)
      BY <1>2, <2>1, FS_Product
    <2>3. QED  BY <1>2, <2>1, <2>2
  <1>5. Others \cap Mine = {}
    OBVIOUS
  <1> HIDE DEF Others, Mine
  <1>6. Cardinality(Others \cap Mine) = 0
    BY <1>5, FS_EmptySet
  <1>7. /\ IsFiniteSet(Others \cup Mine)
        /\ Cardinality(Others \cup Mine)
              = Cardinality(Others) + Cardinality(Mine) - Cardinality(Others \cap Mine)
    BY <1>3, <1>4, FS_Union
  <1>8. Cardinality(Others \cup Mine) = (Cardinality(S) - 1) * m + n
    <2>1. Cardinality(Others) = (Cardinality(S) - 1) * m /\ Cardinality(Others) \in Nat
      BY <1>1, <1>2, <1>3, FS_CardinalityType
    <2> DEFINE c == Cardinality(Others)
    <2>2. c + n - 0 = c + n
      BY <2>1
    <2>3. QED  BY <1>4, <1>6, <1>7, <2>1, <2>2
  <1>9. T \in SUBSET (Others \cup Mine)
    BY DEF Others, Mine
  <1>10. QED  BY <1>7, <1>8, <1>9, FS_Subset, FS_CardinalityType

LEMMA PendingIsFinite ==
    ASSUME NEW o \in Owners
    PROVE  /\ MaxImages(o.type) \in {1, 4} /\ Cardinality(Procs) \in Nat
           /\ IsFiniteSet(Pending(o)) /\ Cardinality(Pending(o)) \in Nat
  <1>1. MaxImages(o.type) \in {1, 4}
    BY DEF MaxImages
  <1>2. IsFiniteSet(Procs \X (1..MaxImages(o.type)))
    <2>1. IsFiniteSet(1..MaxImages(o.type))
      BY <1>1, IntervalsAreFinite
    <2>2. QED  BY <2>1, BoundsAssumption, FS_Product
  <1>3. Pending(o) \in SUBSET (Procs \X (1..MaxImages(o.type)))
    BY DEF Pending
  <1>4. IsFiniteSet(Pending(o))
    BY <1>2, <1>3, FS_Subset
  <1>5. QED  BY <1>1, <1>4, BoundsAssumption, FS_CardinalityType

\* Whose pictures a request adds does not change while it does.
LEMMA PendingOf ==
    ASSUME TypeInv, NEW p \in Procs, Acts(p), NEW o \in Owners,
           pc'[p] \in Uploading => pc[p] \in Uploading /\ req'[p] = req[p],
           NEW n, Left(p)' \subseteq Left(p) \ {n}
    PROVE  Pending(o)' \subseteq Pending(o) \ {<<p, n>>}
  <1>1. \A q \in Procs \ {p} : pc'[q] = pc[q] /\ req'[q] = req[q] /\ at'[q] = at[q]
    BY ActsLocally, FunctionsOfProcs DEF Locally
  <1>2. \A q \in Procs \ {p} : Left(q)' = Left(q) /\ Owner(q)' = Owner(q)
    BY <1>1 DEF Left, Owner
  <1>3. ASSUME NEW q \in Procs, NEW m \in 1..MaxImages(o.type),
               Owner(q)' = o, m \in Left(q)'
        PROVE  Owner(q) = o /\ m \in Left(q) /\ <<q, m>> # <<p, n>>
    <2>1. CASE q # p
      BY <1>2, <1>3, <2>1
    <2>2. CASE q = p
      <3>1. pc'[p] \in Uploading
        BY <1>3, <2>2 DEF Left
      <3>2. Owner(p)' = Owner(p)
        BY <3>1 DEF Owner
      <3>3. QED  BY <1>3, <2>2, <3>2
    <2>3. QED  BY <2>1, <2>2
  <1>4. ASSUME NEW x \in Pending(o)'
        PROVE  x \in Pending(o) \ {<<p, n>>}
    <2>1. PICK q \in Procs, m \in 1..MaxImages(o.type) : x = <<q, m>>
      BY DEF Pending
    <2>2. Owner(q)' = o /\ m \in Left(q)'
      BY <2>1 DEF Pending
    <2>3. QED  BY <1>3, <2>1, <2>2 DEF Pending
  <1>5. QED  BY <1>4

LEMMA CountsStep ==
    ASSUME TypeInv, PicturesInv, CountsInv, NEW p \in Procs, Acts(p)
    PROVE  CountsInv'
  <1>1. \A q \in Procs \ {p} : pc'[q] = pc[q] /\ req'[q] = req[q] /\ at'[q] = at[q]
    BY ActsLocally, FunctionsOfProcs DEF Locally
  <1>2. \A q \in Procs \ {p} : Owner(q)' = Owner(q) /\ Left(q)' = Left(q)
    BY <1>1 DEF Owner, Left
  <1>3. ASSUME pc'[p] \in Uploading => req'[p].files <= MaxImages(Owner(p)'.type),
               NEW q \in Procs, pc'[q] \in Uploading
        PROVE  req'[q].files <= MaxImages(Owner(q)'.type)
    BY <1>1, <1>2, <1>3 DEF CountsInv
  <1>4. /\ association = [k \in Keys |-> association[k]]
        /\ \A o \in Owners : o # Gone
    BY NothingAssumption DEF TypeInv, PicturesTyped, Owners, Types
  <1>5. CASE Counts(p)
    <2>1. req'[p] = req[p] /\ Owner(p)' = Owner(p)
      BY <1>5 DEF Counts, Owner
    <2>2. req[p].files \in Nat /\ Owner(p) \in Owners /\ Cardinality(Shown(Owner(p))) \in Nat
      BY <1>5, ShownIsFinite DEF Counts
    <2>3. req[p].files <= MaxImages(Owner(p).type)
      BY <1>5, <2>2, PendingIsFinite DEF Counts
    <2>4. Left(p) = {} /\ Left(p)' = 1..req[p].files
      BY <1>5 DEF Counts, Left, Uploading
    <2>5. ASSUME NEW o \in Owners
          PROVE  Cardinality(Shown(o)') + Cardinality(Pending(o)')
                     <= MaxImages(o.type) * Cardinality(Procs)
      <3>1. Shown(o)' = Shown(o)
        BY <1>5 DEF Counts, Shown
      <3>2. CASE o # Owner(p)
        <4>1. \A x \in Procs \X (1..MaxImages(o.type)) :
                 Owner(x[1])' = o /\ x[2] \in Left(x[1])' <=> Owner(x[1]) = o /\ x[2] \in Left(x[1])
          BY <1>2, <2>1, <3>2
        <4>2. Pending(o)' = Pending(o)
          BY <4>1 DEF Pending
        <4>3. QED  BY <3>1, <4>2 DEF CountsInv
      <3>3. CASE o = Owner(p)
        <4> DEFINE Max == MaxImages(o.type)
                   Others == (Procs \ {p}) \X (1..Max)
                   Mine == {p} \X (1..req[p].files)
        <4>1. Pending(o)' \in SUBSET (Others \cup Mine)
          <5>1. ASSUME NEW x \in Pending(o)'
                PROVE  x \in Others \cup Mine
            <6>1. PICK q \in Procs, m \in 1..Max : x = <<q, m>>
              BY DEF Pending
            <6>2. m \in Left(q)'
              BY <6>1 DEF Pending
            <6>3. QED  BY <2>4, <6>1, <6>2
          <5>2. QED  BY <5>1
        <4>2. Max \in {1, 4} /\ Max \in Nat /\ Cardinality(Procs) \in Nat
          BY PendingIsFinite
        <4>3. /\ Cardinality(Pending(o)') <= (Cardinality(Procs) - 1) * Max + req[p].files
              /\ Cardinality(Pending(o)') \in Nat
          <5>1. IsFiniteSet(Procs) /\ req[p].files \in Nat
            BY <2>2, BoundsAssumption
          <5>2. PICK T : T = Pending(o)'
            OBVIOUS
          <5>3. T \in SUBSET (Others \cup Mine)
            BY <4>1, <5>2
          <5>4. /\ Cardinality(T) <= (Cardinality(Procs) - 1) * Max + req[p].files
                /\ Cardinality(T) \in Nat
            BY <4>2, <5>1, <5>3, CountByElement, SMTT(60)
          <5>5. QED  BY <5>2, <5>4
        <4>4. Cardinality(Shown(o)) + req[p].files <= Max /\ Cardinality(Shown(o)) \in Nat
          BY <1>5, <2>2, <3>3 DEF Counts
        <4> HIDE DEF Max
        <4>5. Cardinality(Shown(o)) + Cardinality(Pending(o)') <= Max * Cardinality(Procs)
          <5>1. CASE Max = 1
            BY <2>2, <4>2, <4>3, <4>4, <5>1
          <5>2. CASE Max = 4
            BY <2>2, <4>2, <4>3, <4>4, <5>2
          <5>3. QED  BY <4>2, <5>1, <5>2
        <4>6. QED  BY <3>1, <4>5 DEF Max
      <3>4. QED  BY <3>2, <3>3
    <2>6. QED  BY <1>3, <2>1, <2>3, <2>5 DEF CountsInv
  <1>6. CASE Adds(p)
    <2>1. pc[p] \in Uploading
      BY <1>6 DEF Adds, Uploading
    <2>2. pc'[p] \in Uploading => req'[p].files <= MaxImages(Owner(p)'.type)
      BY <1>6, <2>1 DEF Adds, Owner, CountsInv
    <2>3. ASSUME NEW o \in Owners
          PROVE  Cardinality(Shown(o)') + Cardinality(Pending(o)')
                     <= MaxImages(o.type) * Cardinality(Procs)
      <3>1. Pending(o)' \subseteq Pending(o) \ {<<p, at[p]>>}
        BY <1>6, <2>1, PendingOf DEF Adds
      <3>2. /\ IsFiniteSet(Pending(o)) /\ Cardinality(Pending(o)) \in Nat
            /\ MaxImages(o.type) \in {1, 4} /\ Cardinality(Procs) \in Nat
            /\ IsFiniteSet(Shown(o)) /\ Cardinality(Shown(o)) \in Nat
        BY PendingIsFinite, ShownIsFinite
      <3>3. Cardinality(Shown(o)) + Cardinality(Pending(o)) <= MaxImages(o.type) * Cardinality(Procs)
        BY DEF CountsInv
      <3>4. CASE o # Owner(p)
        <4>1. Shown(o)' = Shown(o)
          BY <1>4, <1>6, <3>4 DEF Adds, Shown
        <4>2. Pending(o)' \in SUBSET Pending(o)
          BY <3>1
        <4>3. /\ Cardinality(Pending(o)') <= Cardinality(Pending(o))
              /\ Cardinality(Pending(o)') \in Nat
          BY <3>2, <4>2, FS_Subset, FS_CardinalityType
        <4> DEFINE B == MaxImages(o.type) * Cardinality(Procs)
        <4>4. B \in Nat /\ Cardinality(Shown(o)) + Cardinality(Pending(o)) <= B
          BY <3>2, <3>3
        <4> HIDE DEF B
        <4>5. Cardinality(Shown(o)) + Cardinality(Pending(o)') <= B
          BY <3>2, <4>3, <4>4
        <4>6. QED  BY <4>1, <4>5 DEF B
      <3>5. CASE o = Owner(p)
        <4>1. Shown(o)' = Shown(o) \cup {key[p]}
          BY <1>4, <1>6, <3>5 DEF Adds, Shown
        <4>2. key[p] \notin Shown(o)
          BY <1>4, <1>6 DEF Adds, Shown
        <4>3. Cardinality(Shown(o)') = Cardinality(Shown(o)) + 1
          BY <3>2, <4>1, <4>2, FS_AddElement
        <4>4. <<p, at[p]>> \in Pending(o)
          <5>1. req[p].files <= MaxImages(o.type)
            BY <2>1, <3>5 DEF CountsInv
          <5>2. req[p].files \in Nat
            BY <1>6, PictureRequest DEF Adds, Adding
          <5>3. at[p] \in 1..req[p].files
            BY <1>6 DEF Adds, TypeInv, Looping
          <5>4. at[p] \in 1..MaxImages(o.type)
            BY <3>2, <5>1, <5>2, <5>3
          <5>5. QED  BY <1>6, <3>5, <5>4 DEF Adds, Pending
        <4>5. /\ IsFiniteSet(Pending(o) \ {<<p, at[p]>>})
              /\ Cardinality(Pending(o) \ {<<p, at[p]>>}) = Cardinality(Pending(o)) - 1
          BY <3>2, <4>4, FS_RemoveElement
        <4>6. Pending(o)' \in SUBSET (Pending(o) \ {<<p, at[p]>>})
          BY <3>1
        <4>7. /\ Cardinality(Pending(o)') <= Cardinality(Pending(o)) - 1
              /\ Cardinality(Pending(o)') \in Nat
          BY <4>5, <4>6, FS_Subset, FS_CardinalityType
        <4> DEFINE B == MaxImages(o.type) * Cardinality(Procs)
        <4>8. B \in Nat /\ Cardinality(Shown(o)) + Cardinality(Pending(o)) <= B
          BY <3>2, <3>3
        <4> HIDE DEF B
        <4>9. Cardinality(Shown(o)') + Cardinality(Pending(o)') <= B
          BY <3>2, <4>3, <4>7, <4>8
        <4>10. QED  BY <4>9 DEF B
      <3>6. QED  BY <3>4, <3>5
    <2>4. QED  BY <1>3, <2>2, <2>3 DEF CountsInv
  <1>7. CASE Rests(p)
    <2>1. pc'[p] \in Uploading => req'[p].files <= MaxImages(Owner(p)'.type)
      BY <1>7 DEF Rests, Owner, CountsInv
    <2>2. ASSUME NEW o \in Owners
          PROVE  Cardinality(Shown(o)') + Cardinality(Pending(o)')
                     <= MaxImages(o.type) * Cardinality(Procs)
      <3>1. Shown(o)' \in SUBSET Shown(o)
        BY <1>4, <1>7 DEF Rests, Shown
      <3>2. Left(p)' \subseteq Left(p) \ {Null}
        <4>1. Left(p) \subseteq Int
          BY DEF Left
        <4>2. Null \notin Left(p)
          BY NothingAssumption, <4>1, PictureRequest DEF TypeInv, Looping, Left, Uploading, Adding
        <4>3. QED  BY <1>7, <4>2 DEF Rests
      <3>3. Pending(o)' \in SUBSET Pending(o)
        BY <1>7, <3>2, PendingOf DEF Rests
      <3>4. /\ IsFiniteSet(Pending(o)) /\ Cardinality(Pending(o)) \in Nat
            /\ MaxImages(o.type) \in {1, 4} /\ Cardinality(Procs) \in Nat
            /\ IsFiniteSet(Shown(o)) /\ Cardinality(Shown(o)) \in Nat
        BY PendingIsFinite, ShownIsFinite
      <3>5. /\ Cardinality(Pending(o)') <= Cardinality(Pending(o))
            /\ Cardinality(Pending(o)') \in Nat
            /\ Cardinality(Shown(o)') <= Cardinality(Shown(o))
            /\ Cardinality(Shown(o)') \in Nat
        BY <3>1, <3>3, <3>4, FS_Subset, FS_CardinalityType
      <3>6. Cardinality(Shown(o)) + Cardinality(Pending(o)) <= MaxImages(o.type) * Cardinality(Procs)
        BY DEF CountsInv
      <3> DEFINE B == MaxImages(o.type) * Cardinality(Procs)
      <3>7. B \in Nat /\ Cardinality(Shown(o)) + Cardinality(Pending(o)) <= B
        BY <3>4, <3>6
      <3> HIDE DEF B
      <3>8. Cardinality(Shown(o)') + Cardinality(Pending(o)') <= B
        BY <3>4, <3>5, <3>7
      <3>9. QED  BY <3>8 DEF B
    <2>3. QED  BY <1>3, <2>1, <2>2 DEF CountsInv
  <1>8. QED  BY <1>5, <1>6, <1>7, ActCounts

\* In every run an owner has at most as many times its limit of pictures as
\* requests are served at a time: what a request still adds was counted.
THEOREM PicturesStayBounded == Spec => []PicturesBounded
  <1>1. Init => CountsInv
    <2> SUFFICES ASSUME Init  PROVE CountsInv
      OBVIOUS
    <2>1. ASSUME NEW o \in Owners
          PROVE  Cardinality(Shown(o)) + Cardinality(Pending(o))
                     <= MaxImages(o.type) * Cardinality(Procs)
      <3>1. o # Gone
        BY NothingAssumption DEF Owners, Types
      <3>2. Shown(o) = {} /\ Pending(o) = {}
        BY <3>1 DEF Init, MediaInit, CatalogueInit, Shown, Pending, Left, Uploading
      <3>3. Cardinality(Shown(o)) = 0 /\ Cardinality(Pending(o)) = 0
        BY <3>2, FS_EmptySet
      <3>4. QED  BY <3>3, PendingIsFinite
    <2>2. QED  BY <2>1 DEF CountsInv, Init, CatalogueInit, Uploading
  <1>2. TypeInv /\ PicturesInv /\ CountsInv /\ [Next]_backofficeVars => CountsInv'
    <2> SUFFICES ASSUME TypeInv, PicturesInv, CountsInv, [Next]_backofficeVars
                 PROVE  CountsInv'
      OBVIOUS
    <2>1. CASE UNCHANGED backofficeVars \/ UNCHANGED <<catalogueVars, mediaVars, registrationVars>>
      BY <2>1 DEF backofficeVars, catalogueVars, requestVars, mediaVars, bucketVars, loopVars,
         CountsInv, Shown, Pending, Left, Owner
    <2>2. CASE ProcessEnds
      <3>1. UNCHANGED association /\ \A p \in Procs : pc'[p] = "idle"
        BY <2>2 DEF ProcessEnds, Crash, MediaCrash
      <3>2. ASSUME NEW o \in Owners
            PROVE  Cardinality(Shown(o)') + Cardinality(Pending(o)')
                       <= MaxImages(o.type) * Cardinality(Procs)
        <4>1. Shown(o)' = Shown(o) /\ Pending(o)' = {}
          BY <3>1 DEF Shown, Pending, Left, Uploading
        <4>2. Cardinality(Pending(o)') = 0 /\ Cardinality(Shown(o)') = Cardinality(Shown(o))
          BY <4>1, FS_EmptySet
        <4> DEFINE B == MaxImages(o.type) * Cardinality(Procs)
        <4>3. B \in Nat /\ Cardinality(Shown(o)) + Cardinality(Pending(o)) <= B
              /\ Cardinality(Shown(o)) \in Nat /\ Cardinality(Pending(o)) \in Nat
          BY PendingIsFinite, ShownIsFinite DEF CountsInv
        <4> HIDE DEF B
        <4>4. Cardinality(Shown(o)') + Cardinality(Pending(o)') <= B
          BY <4>2, <4>3
        <4>5. QED  BY <4>4 DEF B
      <3>3. QED  BY <3>1, <3>2 DEF CountsInv, Uploading
    <2>3. CASE \E p \in Procs : Acts(p)
      BY <2>3, CountsStep
    <2>4. QED  BY <2>1, <2>2, <2>3, RequestSteps
  <1>3. TypeInv /\ CountsInv => PicturesBounded
    <2> SUFFICES ASSUME TypeInv, CountsInv, NEW k \in Keys, association[k] # Gone
                 PROVE  Cardinality(Shown(association[k]))
                            <= MaxImages(association[k].type) * Cardinality(Procs)
      BY DEF PicturesBounded
    <2>1. association[k] \in Owners
      BY DEF TypeInv, PicturesTyped, Owners, Types
    <2>2. PICK o \in Owners : o = association[k]
      BY <2>1
    <2> DEFINE B == MaxImages(o.type) * Cardinality(Procs)
    <2>3. B \in Nat /\ Cardinality(Shown(o)) + Cardinality(Pending(o)) <= B
          /\ Cardinality(Shown(o)) \in Nat /\ Cardinality(Pending(o)) \in Nat
      BY PendingIsFinite, ShownIsFinite DEF CountsInv
    <2> HIDE DEF B
    <2>4. Cardinality(Shown(o)) <= B
      BY <2>3
    <2>5. QED  BY <2>2, <2>4 DEF B
  <1>4. QED  BY <1>1, <1>2, <1>3, InitTypeInv, NextTypeInv, PicturesHold, PTL DEF Spec

-----------------------------------------------------------------------------
(* WalkExact                                                                 *)

\* The rows of lower identifier.
Below(S, i) == {j \in S : j < i}
Rank(S, i) == Cardinality(Below(S, i))
Slice(S, n, m) == {i \in S : Rank(S, i) >= n /\ Rank(S, i) < n + m}

LEMMA RankIsNat ==
    ASSUME NEW S, IsFiniteSet(S), NEW i
    PROVE  IsFiniteSet(Below(S, i)) /\ Rank(S, i) \in Nat
  <1>1. Below(S, i) \in SUBSET S
    BY DEF Below
  <1>2. QED  BY <1>1, FS_Subset, FS_CardinalityType DEF Rank

LEMMA RankGrows ==
    ASSUME NEW S, IsFiniteSet(S), NEW T \in SUBSET S, NEW i
    PROVE  Rank(T, i) <= Rank(S, i) /\ Rank(T, i) \in Nat /\ Rank(S, i) \in Nat
  <1>1. Below(T, i) \in SUBSET Below(S, i)
    BY DEF Below
  <1>2. IsFiniteSet(Below(S, i)) /\ IsFiniteSet(T)
    BY RankIsNat, FS_Subset
  <1>3. QED  BY <1>1, <1>2, RankIsNat, FS_Subset DEF Rank

LEMMA RanksDiffer ==
    ASSUME NEW S \in SUBSET Nat, IsFiniteSet(S), NEW i \in S, NEW j \in S, i < j
    PROVE  Rank(S, i) < Rank(S, j)
  <1>1. Below(S, i) \in SUBSET Below(S, j) /\ i \in Below(S, j) \ Below(S, i)
    <2>1. i \in Nat /\ j \in Nat /\ \A l \in S : l \in Nat
      OBVIOUS
    <2>2. ~(i < i) /\ \A l \in S : l < i => l < j
      BY <2>1
    <2>3. QED  BY <2>2 DEF Below
  <1>2. IsFiniteSet(Below(S, j)) /\ Rank(S, i) \in Nat /\ Rank(S, j) \in Nat
    BY RankIsNat
  <1>3. Rank(S, i) <= Rank(S, j) /\ Rank(S, i) # Rank(S, j)
    BY <1>1, <1>2, FS_Subset DEF Rank
  <1>4. QED  BY <1>2, <1>3

LEMMA RanksBelowCount ==
    ASSUME NEW S \in SUBSET Nat, IsFiniteSet(S), NEW i \in S
    PROVE  Rank(S, i) \in Nat /\ Cardinality(S) \in Nat /\ Rank(S, i) < Cardinality(S)
  <1>1. Below(S, i) \in SUBSET S /\ i \notin Below(S, i)
    BY DEF Below
  <1>2. Rank(S, i) \in Nat /\ Cardinality(S) \in Nat
    BY RankIsNat, FS_CardinalityType
  <1>3. Rank(S, i) <= Cardinality(S) /\ Rank(S, i) # Cardinality(S)
    BY <1>1, FS_Subset DEF Rank
  <1>4. QED  BY <1>2, <1>3

\* Ranks leave no gap.
LEMMA RankReached ==
    ASSUME NEW S \in SUBSET Nat, IsFiniteSet(S), NEW i \in S, NEW n \in Nat, n <= Rank(S, i)
    PROVE  \E j \in S : Rank(S, j) = n
  <1> DEFINE c == Cardinality(S)
             others == (0..(c - 1)) \ {n}
             rank == [j \in S |-> Rank(S, j)]
  <1>1. c \in Nat /\ n \in 0..(c - 1)
    BY RanksBelowCount
  <1>2. IsFiniteSet(0..(c - 1)) /\ Cardinality(0..(c - 1)) = c
    BY <1>1, FS_Interval
  <1>3. IsFiniteSet(others) /\ Cardinality(others) = c - 1
    <2>1. PICK D : D = 0..(c - 1)
      OBVIOUS
    <2>2. IsFiniteSet(D \ {n}) /\ Cardinality(D \ {n}) = Cardinality(D) - 1
      BY <1>1, <1>2, <2>1, FS_RemoveElement
    <2>3. QED  BY <1>2, <2>1, <2>2
  <1>4. SUFFICES ASSUME \A j \in S : Rank(S, j) # n
                 PROVE  FALSE
    OBVIOUS
  <1>5. rank \in [S -> others]
    BY <1>1, <1>4, RanksBelowCount
  <1>6. Cardinality(others) < Cardinality(S)
    BY <1>1, <1>3
  <1>7. \E j, k \in S : j # k /\ rank[j] = rank[k]
    <2> HIDE DEF others, rank
    <2>1. QED  BY <1>3, <1>5, <1>6, FS_PigeonHole
  <1>8. PICK j \in S, k \in S : j # k /\ Rank(S, j) = Rank(S, k) /\ Rank(S, j) \in Nat
    BY <1>7, RankIsNat
  <1>9. j < k \/ k < j
    BY <1>8
  <1>10. QED
    BY <1>8, <1>9, RanksDiffer

\* A page that is not full is the last.
LEMMA ShortPage ==
    ASSUME NEW S \in SUBSET Nat, IsFiniteSet(S), NEW n \in Nat, NEW m \in Nat,
           Cardinality(Slice(S, n, m)) < m, NEW i \in S
    PROVE  Rank(S, i) < n + m
  <1> DEFINE Q == Slice(S, n, m)
             rank == [j \in Q |-> Rank(S, j)]
  <1>1. \A j : Rank(S, j) \in Nat
    BY RankIsNat
  <1>2. SUFFICES ASSUME Rank(S, i) >= n + m
                 PROVE  FALSE
    BY <1>1
  <1>3. rank \in [Q -> n..(n + m - 1)]
    BY <1>1 DEF Slice
  <1>4. ASSUME NEW v \in n..(n + m - 1)
        PROVE  \E j \in Q : rank[j] = v
    <2>1. v \in Nat /\ v <= Rank(S, i)
      BY <1>1, <1>2
    <2>2. PICK j \in S : Rank(S, j) = v
      BY <2>1, RankReached
    <2>3. QED  BY <2>2 DEF Slice
  <1>5. rank \in Surjection(Q, n..(n + m - 1))
    BY <1>3, <1>4 DEF Surjection
  <1>6. IsFiniteSet(Q)
    BY FS_Subset DEF Slice
  <1>7. Cardinality(n..(n + m - 1)) <= Cardinality(Q) /\ Cardinality(Q) \in Nat
    BY <1>5, <1>6, FS_Surjection, FS_CardinalityType
  <1>8. Cardinality(n..(n + m - 1)) = m
    BY FS_Interval
  <1>9. QED  BY <1>7, <1>8

\* Up to the end of a full page there are as many rows as were asked for.
LEMMA FullPage ==
    ASSUME NEW S \in SUBSET Nat, IsFiniteSet(S), NEW n \in Nat, NEW m \in Nat \ {0},
           ~(Cardinality(Slice(S, n, m)) < m)
    PROVE  Cardinality(S) >= n + m
  <1> DEFINE Q == Slice(S, n, m)
             c == Cardinality(S)
             rank == [j \in Q |-> Rank(S, j)]
  <1>1. c \in Nat /\ IsFiniteSet(Q) /\ Cardinality(Q) \in Nat
    BY FS_Subset, FS_CardinalityType DEF Slice
  <1>2. /\ IsFiniteSet(n..(c - 1))
        /\ Cardinality(n..(c - 1)) = IF n > c - 1 THEN 0 ELSE (c - 1) - n + 1
    <2>1. PICK b \in Int : b = c - 1
      BY <1>1
    <2>2. n \in Int /\ IsFiniteSet(n..b) /\ Cardinality(n..b) = IF n > b THEN 0 ELSE b - n + 1
      BY FS_Interval
    <2>3. QED  BY <2>1, <2>2
  <1>3. rank \in [Q -> n..(c - 1)]
    <2>1. ASSUME NEW j \in Q  PROVE Rank(S, j) \in n..(c - 1)
      <3>1. j \in S /\ Rank(S, j) >= n
        BY DEF Slice
      <3>2. Rank(S, j) \in Nat /\ Rank(S, j) < c
        BY <3>1, RanksBelowCount
      <3>3. QED  BY <1>1, <3>1, <3>2
    <2>2. QED  BY <2>1
  <1>4. \A j, k \in Q : rank[j] = rank[k] => j = k
    <2>1. ASSUME NEW j \in Q, NEW k \in Q, j # k
          PROVE  rank[j] # rank[k]
      <3>1. j \in S /\ k \in S /\ (j < k \/ k < j) /\ Rank(S, j) \in Nat /\ Rank(S, k) \in Nat
        BY <2>1, RankIsNat DEF Slice
      <3>2. QED  BY <3>1, RanksDiffer
    <2>2. QED  BY <2>1
  <1>5. rank \in Injection(Q, n..(c - 1))
    BY <1>3, <1>4 DEF Injection, IsInjective
  <1>6. Cardinality(Q) <= Cardinality(n..(c - 1))
    BY <1>2, <1>5, FS_Injection
  <1>7. QED  BY <1>1, <1>2, <1>6

\* What a client has seen of a table: without deletions every row of the start
\* that comes before the next page; without rows that came back nothing else.
\* While it goes on there are as many rows as the pages had.
WalkInv ==
    /\ listing \in DOMAIN Listing \cup {None}
    /\ walk.table # None =>
          /\ walk = [table |-> walk.table, offset |-> walk.offset, seen |-> walk.seen,
                     twice |-> walk.twice, deleted |-> walk.deleted, revived |-> walk.revived,
                     first |-> walk.first, last |-> walk.last, done |-> walk.done]
          /\ walk.table \in Kinds /\ walk.offset \in Nat /\ walk.last \subseteq Ids
          /\ ~walk.deleted =>
                /\ walk.first \subseteq walk.last
                /\ \A i \in walk.first : Rank(walk.last, i) < walk.offset => i \in walk.seen
          /\ walk.done => \A i \in walk.last : Rank(walk.last, i) < walk.offset
          /\ ~walk.done => Cardinality(walk.last) >= walk.offset
          /\ ~walk.revived => \A i \in walk.seen : i \in Ids /\ Rank(walk.last, i) < walk.offset
          /\ walk.twice => walk.revived
          /\ walk.deleted \in BOOLEAN /\ walk.revived \in BOOLEAN /\ walk.done \in BOOLEAN
          /\ walk.twice \in BOOLEAN

LEMMA WalkStep ==
    ASSUME TypeInv, WalkInv, NextPage
    PROVE  WalkInv'
  <1> DEFINE k == walk.table
             R == RowsOf(k)
             L == walk.last
             n == walk.offset
             page == Page(k, n)
  <1>1. /\ k # None /\ ~walk.done
        /\ walk' = [walk EXCEPT
              !.offset = n + Limit,
              !.seen = walk.seen \cup page,
              !.twice = walk.twice \/ page \cap walk.seen # {},
              !.deleted = walk.deleted \/ L \ R # {},
              !.revived = walk.revived \/ \E i \in R \ L : \E j \in L : i < j,
              !.last = R,
              !.done = Cardinality(page) < Limit]
        /\ UNCHANGED <<listing, query>>
    BY DEF NextPage
  <1>2. walk = [table |-> k, offset |-> n, seen |-> walk.seen, twice |-> walk.twice,
                deleted |-> walk.deleted, revived |-> walk.revived, first |-> walk.first,
                last |-> L, done |-> walk.done]
    BY <1>1 DEF WalkInv
  <1>3. walk' = [table |-> k, offset |-> n + Limit, seen |-> walk.seen \cup page,
                 twice |-> walk.twice \/ page \cap walk.seen # {},
                 deleted |-> walk.deleted \/ L \ R # {},
                 revived |-> walk.revived \/ \E i \in R \ L : \E j \in L : i < j,
                 first |-> walk.first, last |-> R, done |-> Cardinality(page) < Limit]
    BY <1>1, <1>2
  <1>4. /\ walk'.table = k /\ walk'.offset = n + Limit /\ walk'.seen = walk.seen \cup page
        /\ walk'.twice = (walk.twice \/ page \cap walk.seen # {})
        /\ walk'.deleted = (walk.deleted \/ L \ R # {})
        /\ walk'.revived = (walk.revived \/ \E i \in R \ L : \E j \in L : i < j)
        /\ walk'.first = walk.first /\ walk'.last = R
        /\ walk'.done = (Cardinality(page) < Limit)
        /\ walk' = [table |-> walk'.table, offset |-> walk'.offset, seen |-> walk'.seen,
                    twice |-> walk'.twice, deleted |-> walk'.deleted, revived |-> walk'.revived,
                    first |-> walk'.first, last |-> walk'.last, done |-> walk'.done]
    BY <1>3
  <1>5. /\ k \in Kinds /\ n \in Nat /\ Limit \in Nat \ {0} /\ n + Limit \in Nat
        /\ R \in SUBSET Nat /\ L \in SUBSET Nat /\ R \subseteq Ids
        /\ IsFiniteSet(R) /\ IsFiniteSet(L) /\ IsFiniteSet(R \cup L)
    <2>1. R \in SUBSET Ids /\ L \in SUBSET Ids
      BY <1>1 DEF WalkInv, RowsOf
    <2>2. R \cup L \in SUBSET Ids
      BY <2>1
    <2>3. QED  BY <1>1, <2>1, <2>2, BoundsAssumption, FS_Subset DEF WalkInv
  <1>6. page = Slice(R, n, Limit)
    BY DEF Page, Before, Slice, Rank, Below
  <1>7. \A i : Rank(R, i) \in Nat /\ Rank(L, i) \in Nat
    BY <1>5, RankIsNat
  <1>8. ASSUME ~walk'.deleted
        PROVE  /\ walk'.first \subseteq walk'.last
               /\ \A i \in walk'.first : Rank(walk'.last, i) < walk'.offset => i \in walk'.seen
    <2>1. ~walk.deleted /\ L \subseteq R
      BY <1>4, <1>8
    <2>2. walk.first \subseteq L /\ \A i \in walk.first : Rank(L, i) < n => i \in walk.seen
      BY <1>1, <2>1 DEF WalkInv
    <2>3. ASSUME NEW i \in walk.first, Rank(R, i) < n + Limit
          PROVE  i \in walk.seen \cup page
      <3>1. CASE Rank(R, i) >= n
        BY <1>6, <2>1, <2>2, <2>3, <3>1 DEF Slice
      <3>2. CASE Rank(R, i) < n
        <4>1. Rank(L, i) <= Rank(R, i)
          BY <1>5, <2>1, RankGrows
        <4>2. Rank(L, i) < n
          BY <1>5, <1>7, <3>2, <4>1
        <4>3. QED  BY <2>2, <4>2
      <3>3. QED  BY <1>5, <1>7, <3>1, <3>2
    <2>4. QED  BY <1>4, <2>1, <2>2, <2>3
  <1>9. walk'.done => \A i \in walk'.last : Rank(walk'.last, i) < walk'.offset
    <2>1. ASSUME Cardinality(Slice(R, n, Limit)) < Limit, NEW i \in R
          PROVE  Rank(R, i) < n + Limit
      <3> HIDE DEF R, n
      <3>1. QED  BY <1>5, <2>1, ShortPage
    <2>2. QED  BY <1>4, <1>6, <2>1
  <1>10. ~walk'.done => Cardinality(walk'.last) >= walk'.offset
    <2>1. ASSUME ~(Cardinality(Slice(R, n, Limit)) < Limit)
          PROVE  Cardinality(R) >= n + Limit
      <3> HIDE DEF R, n
      <3>1. QED  BY <1>5, <2>1, FullPage
    <2>2. QED  BY <1>4, <1>6, <2>1
  <1>11. ASSUME ~walk'.revived, NEW i \in walk.seen
         PROVE  i \in Ids /\ Rank(R, i) < n
    <2>1. ~walk.revived /\ \A j \in R \ L : \A l \in L : ~(j < l)
      BY <1>4, <1>11
    <2>2. i \in Ids /\ i \in Nat /\ Rank(L, i) < n
      BY <1>1, <2>1, BoundsAssumption DEF WalkInv
    <2>3. Cardinality(L) >= n /\ Cardinality(L) \in Nat
      BY <1>1, <1>5, FS_CardinalityType DEF WalkInv
    <2>4. CASE \E j \in R \ L : j < i
      <3>1. PICK j \in R \ L : j < i
        BY <2>4
      <3>2. \A l \in L : l < i
        BY <1>5, <2>1, <2>2, <3>1
      <3>3. Below(L, i) = L
        BY <3>2 DEF Below
      <3>4. Rank(L, i) >= n
        BY <2>3, <3>3 DEF Rank
      <3>5. QED  BY <1>5, <1>7, <2>2, <3>4
    <2>5. CASE ~\E j \in R \ L : j < i
      <3>1. Below(R, i) \in SUBSET Below(L, i)
        BY <2>5 DEF Below
      <3>2. IsFiniteSet(Below(L, i))
        BY <1>5, RankIsNat
      <3>3. Rank(R, i) <= Rank(L, i)
        BY <3>1, <3>2, FS_Subset DEF Rank
      <3>4. QED  BY <1>5, <1>7, <2>2, <3>3
    <2>6. QED  BY <2>4, <2>5
  <1>12. ASSUME ~walk'.revived
         PROVE  \A i \in walk'.seen : i \in Ids /\ Rank(walk'.last, i) < walk'.offset
    <2>1. ASSUME NEW i \in page
          PROVE  i \in Ids /\ Rank(R, i) < n + Limit
      BY <1>5, <1>6 DEF Slice
    <2>2. ASSUME NEW i \in walk.seen
          PROVE  i \in Ids /\ Rank(R, i) < n + Limit
      <3>1. i \in Ids /\ Rank(R, i) < n
        BY <1>11, <1>12
      <3>2. QED  BY <1>5, <1>7, <3>1
    <2>3. QED  BY <1>4, <2>1, <2>2
  <1>13. walk'.twice => walk'.revived
    <2>1. SUFFICES ASSUME ~walk'.revived
                   PROVE  ~walk.twice /\ page \cap walk.seen = {}
      BY <1>4
    <2>2. ~walk.twice
      BY <1>1, <1>4, <2>1 DEF WalkInv
    <2>3. \A i \in walk.seen : i \notin page
      <3>1. ASSUME NEW i \in walk.seen  PROVE ~(Rank(R, i) >= n)
        <4>1. Rank(R, i) < n
          BY <1>11, <2>1
        <4>2. QED  BY <1>5, <1>7, <4>1
      <3>2. QED  BY <1>6, <3>1 DEF Slice
    <2>4. QED  BY <2>2, <2>3
  <1>14. /\ walk'.deleted \in BOOLEAN /\ walk'.revived \in BOOLEAN
         /\ walk'.done \in BOOLEAN /\ walk'.twice \in BOOLEAN
    BY <1>4
  <1>15. listing' \in DOMAIN Listing \cup {None}
    BY <1>1 DEF WalkInv
  <1> HIDE DEF page
  <1>16. QED
    BY <1>4, <1>5, <1>8, <1>9, <1>10, <1>12, <1>13, <1>14, <1>15 DEF WalkInv

LEMMA WalkInvHolds == Spec => []WalkInv
  <1>1. Init => WalkInv
    <2> SUFFICES ASSUME Init  PROVE WalkInv
      OBVIOUS
    <2>1. offered \in Offers /\ listing = offered.listing /\ ListingsInit(offered.listing, offered.walk)
      BY DEF Init, CatalogueInit, ListingsInit
    <2>2. listing \in DOMAIN Listing \cup {None} /\ offered.walk \in Kinds \cup {None}
      BY <2>1, OffersAssumption
    <2>3. CASE offered.walk = None
      BY <2>1, <2>2, <2>3 DEF ListingsInit, NoWalk, WalkInv
    <2>4. CASE offered.walk # None
      <3> DEFINE R == RowsOf(offered.walk)
      <3>1. walk = [table |-> offered.walk, offset |-> 0, seen |-> {}, twice |-> FALSE,
                    deleted |-> FALSE, revived |-> FALSE, first |-> R, last |-> R,
                    done |-> FALSE]
        BY <2>1, <2>4 DEF ListingsInit
      <3>2. R \in SUBSET Ids
        BY DEF RowsOf
      <3>3. IsFiniteSet(R)
        BY <3>2, BoundsAssumption, FS_Subset
      <3>4. Cardinality(R) \in Nat /\ \A i : Rank(R, i) \in Nat
        BY <3>3, FS_CardinalityType, RankIsNat
      <3> HIDE DEF R
      <3>5. Cardinality(R) >= 0 /\ \A i : ~(Rank(R, i) < 0)
        BY <3>4
      <3>6. QED  BY <2>2, <2>4, <3>1, <3>2, <3>5 DEF WalkInv
    <2>5. QED  BY <2>3, <2>4
  <1>2. TypeInv /\ WalkInv /\ [Next]_backofficeVars => WalkInv'
    <2> SUFFICES ASSUME TypeInv, WalkInv, [Next]_backofficeVars
                 PROVE  WalkInv'
      OBVIOUS
    <2>1. CASE UNCHANGED <<listing, walk>>
      BY <2>1 DEF WalkInv
    <2>2. CASE NextPage
      BY <2>2, WalkStep
    <2>3. QED
      BY <2>1, <2>2 DEF Next, Arrive, CatalogueAlone, MediaAlone, StoreFault, RegistrationAlone,
         ListingsAlone, ListingsStep, AddFilter, ProcessEnds, Terminating, backofficeVars,
         listingVars
  <1>3. QED  BY <1>1, <1>2, InitTypeInv, NextTypeInv, PTL DEF Spec

\* In every run a client that pages through a table misses a row that stays
\* only after a deletion, and sees one twice only after a save() brought back a
\* row of lower identifier: ranks leave no gap, so a short page is the last.
THEOREM WalksAreExact == Spec => []WalkExact
  <1>1. WalkInv => WalkExact
    BY DEF WalkInv, WalkExact
  <1>2. QED  BY <1>1, WalkInvHolds, PTL

-----------------------------------------------------------------------------
(* The tables of the listings: a parameter more, and both bounds of a field.  *)

\* The fields that take both bounds, or one; the dates of tickets, whose bounds
\* are all on one side, are apart.
Ranged(l) ==
    CASE l \in {"concerts", "customers"} -> {"concert_available_from", "concert_start_date",
                                             "concert_end_date", "venue_capacity"}
      [] l = "rules" -> {"available_from"}
      [] l \in {"tickets", "myTickets"} -> {"price"}
      [] l = "categories" -> {"price", "quantity", "start_date", "end_date", "default_quantity"}
      [] l \in {"orders", "myOrders"} -> {"total_price"}
      [] l = "users" -> {"birth_date"}
      [] OTHER -> {}

\* A condition is bound to the name of its parameter, with one exception, and
\* to no name the listing binds itself.
OwnName(w) ==
    /\ \/ w.param = w.filter
       \/ w.filter = <<"is_active", "">> /\ w.filter[1] = "is_active" /\ w.param = <<"isActive", "">>
    /\ w.filter[1] \notin {"isActive", "now", "user"}

\* The condition of a field that takes bounds compares its column as its suffix
\* says.
Straight(l, w) ==
    /\ w.filter[2] = "gte" =>
          \/ w.filter[1] \in Ranged(l)
          \/ l \in {"tickets", "myTickets"} /\ w.filter[1] \in {"start_date", "end_date"}
    /\ w.filter[1] \in Ranged(l) =>
          /\ w.column = w.filter[1] /\ w.param = w.filter
          /\ w.filter[2] = "" => w.op = "="
          /\ w.filter[2] = "gte" => w.op = ">="
          /\ w.filter[2] = "lte" => w.op = "<="

LEMMA ListingsAre ==
    DOMAIN Listing = {"concerts", "customers", "members", "positions", "roles", "artists", "rules",
                      "tickets", "categories", "orders", "myOrders", "myTickets", "users"}
  BY DEF Listing

LEMMA WheresOf ==
    /\ Listing["concerts"].wheres = ConcertWheres /\ Listing["customers"].wheres = ConcertWheres
    /\ Listing["members"].wheres = MemberWheres /\ Listing["positions"].wheres = PositionWheres
    /\ Listing["roles"].wheres = RoleWheres /\ Listing["artists"].wheres = ArtistWheres
    /\ Listing["rules"].wheres = RuleWheres /\ Listing["tickets"].wheres = TicketWheres
    /\ Listing["categories"].wheres = CategoryWheres /\ Listing["orders"].wheres = OrderWheres
    /\ Listing["myOrders"].wheres = MyOrderWheres /\ Listing["myTickets"].wheres = MyTicketWheres
    /\ Listing["users"].wheres = UserWheres
  BY DEF Listing, Plain

\* The conditions the listings always have.
LEMMA AlwaysOf ==
    \A l \in DOMAIN Listing :
        /\ \A w \in Listing[l].always :
              /\ w.param \in {<<"now", "">>, <<"isActive", "">>, <<"user", "">>}
              /\ w.param = <<"isActive", "">> => l = "customers"
        /\ \A g \in Listing[l].fails : g[1] \notin Ranged(l)
  <1>1. \A w \in Listing["customers"].always : w.param \in {<<"now", "">>, <<"isActive", "">>}
    <2>1. Listing["customers"].always = ForCustomers
      BY DEF Listing, Plain
    <2>2. ASSUME NEW w \in ForCustomers
          PROVE  w.param \in {<<"now", "">>, <<"isActive", "">>}
      <3>1. CASE w = [filter |-> None, column |-> "concert_available_from", op |-> ">=",
                      param |-> <<"now", "">>]
        BY <3>1
      <3>2. CASE w = [filter |-> None, column |-> "is_active", op |-> "=",
                      param |-> <<"isActive", "">>]
        BY <3>2
      <3>3. QED  BY <3>1, <3>2 DEF ForCustomers
    <2>3. QED  BY <2>1, <2>2
  <1>2. \A w \in Listing["myOrders"].always : w.param = <<"user", "">>
    <2>1. Listing["myOrders"].always = OfCurrentUser.always
      BY DEF Listing, Plain
    <2>2. ASSUME NEW w \in OfCurrentUser.always
          PROVE  w.param = <<"user", "">>
      <3>1. w = [filter |-> None, column |-> "user_id", op |-> "=", param |-> <<"user", "">>]
        BY DEF OfCurrentUser
      <3>2. QED  BY <3>1
    <2>3. QED  BY <2>1, <2>2
  <1>3. \A l \in DOMAIN Listing \ {"customers", "myOrders"} : Listing[l].always = {}
    <2>1. /\ Listing["concerts"].always = {} /\ Listing["members"].always = {}
          /\ Listing["positions"].always = {} /\ Listing["roles"].always = {}
          /\ Listing["artists"].always = {} /\ Listing["rules"].always = {}
          /\ Listing["tickets"].always = {} /\ Listing["categories"].always = {}
          /\ Listing["orders"].always = {} /\ Listing["myTickets"].always = {}
          /\ Listing["users"].always = {}
      BY DEF Listing, Plain
    <2>2. QED  BY <2>1, ListingsAre
  <1>4. \A l \in DOMAIN Listing : \A g \in Listing[l].fails : g[1] \in {"genre_id", "email"}
    <2>1. /\ Listing["concerts"].fails = {} /\ Listing["members"].fails = {}
          /\ Listing["positions"].fails = {} /\ Listing["roles"].fails = {}
          /\ Listing["customers"].fails = {} /\ Listing["rules"].fails = {}
          /\ Listing["tickets"].fails = {} /\ Listing["categories"].fails = {}
          /\ Listing["myOrders"].fails = {} /\ Listing["myTickets"].fails = {}
          /\ Listing["users"].fails = {}
      BY DEF Listing, Plain
    <2>2. /\ Listing["artists"].fails = {<<"genre_id", "">>}
          /\ Listing["orders"].fails = {<<"email", "">>}
      BY DEF Listing, Plain
    <2>3. <<"genre_id", "">>[1] = "genre_id" /\ <<"email", "">>[1] = "email"
      OBVIOUS
    <2>4. QED  BY <2>1, <2>2, <2>3, ListingsAre
  <1>5. \A l : "genre_id" \notin Ranged(l) /\ "email" \notin Ranged(l)
    BY DEF Ranged
  <1>6. <<"now", "">> # <<"isActive", "">> /\ <<"user", "">> # <<"isActive", "">>
    OBVIOUS
  <1>7. QED  BY <1>1, <1>2, <1>3, <1>4, <1>5, <1>6

\* A condition on the column of its field.
Field(w, f, suffix, op) ==
    /\ w.filter[1] = f /\ w.filter[2] = suffix
    /\ w.column = f /\ w.op = op /\ w.param = w.filter

LEMMA WhereIs ==
    ASSUME NEW g, NEW c, NEW op, NEW w, w = Where(g, c, op)
    PROVE  w.filter = g /\ w.column = c /\ w.op = op /\ w.param = g
  BY DEF Where

LEMMA FieldIs ==
    ASSUME NEW f, NEW suffix, NEW op, NEW w, w = Where(<<f, suffix>>, f, op)
    PROVE  Field(w, f, suffix, op)
  <1>1. PICK g : g = <<f, suffix>>
    OBVIOUS
  <1>2. w.filter = g /\ w.column = f /\ w.op = op /\ w.param = g
    BY <1>1, WhereIs
  <1>3. g[1] = f /\ g[2] = suffix
    BY <1>1
  <1>4. QED  BY <1>2, <1>3 DEF Field

LEMMA EqualFields ==
    ASSUME NEW F, NEW w \in Equal(F)
    PROVE  \E f \in F : Field(w, f, "", "=")
  <1>1. PICK f \in F : w = Where(<<f, "">>, f, "=")
    BY DEF Equal
  <1>2. QED  BY <1>1, FieldIs

LEMMA LikeFields ==
    ASSUME NEW F, NEW w \in Like(F)
    PROVE  \E f \in F : Field(w, f, "", "like")
  <1>1. PICK f \in F : w = Where(<<f, "">>, f, "like")
    BY DEF Like
  <1>2. QED  BY <1>1, FieldIs

LEMMA RangeFields ==
    ASSUME NEW F, NEW w \in Ranges(F)
    PROVE  \E f \in F : \/ Field(w, f, "", "=") \/ Field(w, f, "gte", ">=")
                        \/ Field(w, f, "lte", "<=")
  <1>1. CASE w \in {Where(<<f, "">>, f, "=") : f \in F}
    <2>1. PICK f \in F : w = Where(<<f, "">>, f, "=")
      BY <1>1
    <2>2. QED  BY <2>1, FieldIs
  <1>2. CASE w \in {Where(<<f, "gte">>, f, ">=") : f \in F}
    <2>1. PICK f \in F : w = Where(<<f, "gte">>, f, ">=")
      BY <1>2
    <2>2. QED  BY <2>1, FieldIs
  <1>3. CASE w \in {Where(<<f, "lte">>, f, "<=") : f \in F}
    <2>1. PICK f \in F : w = Where(<<f, "lte">>, f, "<=")
      BY <1>3
    <2>2. QED  BY <2>1, FieldIs
  <1>4. QED  BY <1>1, <1>2, <1>3 DEF Ranges

LEMMA BoundFields ==
    ASSUME NEW f, NEW c, NEW op, NEW w \in Bounds(f, c, op)
    PROVE  w.param = w.filter /\ w.filter[1] = f
  <1>1. PICK suffix, o : w = Where(<<f, suffix>>, c, o)
    BY DEF Bounds
  <1>2. PICK g : g = <<f, suffix>>
    OBVIOUS
  <1>3. w.filter = g /\ w.param = g
    BY <1>1, <1>2, WhereIs
  <1>4. QED  BY <1>2, <1>3

\* The conditions built for a set of fields, some of which take bounds.
LEMMA EqualConditions ==
    ASSUME NEW l, NEW F, F \cap {"isActive", "now", "user"} = {}, NEW w \in Equal(F)
    PROVE  OwnName(w) /\ Straight(l, w)
  <1>1. PICK f \in F : Field(w, f, "", "=")
    BY EqualFields
  <1>2. QED  BY <1>1 DEF Field, OwnName, Straight

LEMMA LikeConditions ==
    ASSUME NEW l, NEW F, F \cap ({"isActive", "now", "user"} \cup Ranged(l)) = {}, NEW w \in Like(F)
    PROVE  OwnName(w) /\ Straight(l, w)
  <1>1. PICK f \in F : Field(w, f, "", "like")
    BY LikeFields
  <1>2. QED  BY <1>1 DEF Field, OwnName, Straight

LEMMA RangeConditions ==
    ASSUME NEW l, NEW F, F \cap {"isActive", "now", "user"} = {}, F \subseteq Ranged(l),
           NEW w \in Ranges(F)
    PROVE  OwnName(w) /\ Straight(l, w)
  <1>1. PICK f \in F : \/ Field(w, f, "", "=") \/ Field(w, f, "gte", ">=")
                       \/ Field(w, f, "lte", "<=")
    BY RangeFields
  <1>2. QED  BY <1>1 DEF Field, OwnName, Straight

\* A condition on another column, or in another way: no bound of a field that
\* takes both.
LEMMA OtherCondition ==
    ASSUME NEW l, NEW g, g[1] \notin Ranged(l) \cup {"isActive", "now", "user"},
           NEW c, NEW op, NEW w, w = Where(g, c, op),
           g[2] = "gte" => (l \in {"tickets", "myTickets"} /\ g[1] \in {"start_date", "end_date"})
    PROVE  OwnName(w) /\ Straight(l, w)
  <1>1. w.filter = g /\ w.param = g
    BY WhereIs
  <1>2. QED  BY <1>1 DEF OwnName, Straight

LEMMA SuffixCondition ==
    ASSUME NEW l, NEW g, g[1] \in Ranged(l), g[1] \notin {"isActive", "now", "user"},
           NEW c, c = g[1], NEW op, NEW w, w = Where(g, c, op),
           g[2] = "" => op = "=",
           g[2] = "gte" => op = ">=",
           g[2] = "lte" => op = "<="
    PROVE  OwnName(w) /\ Straight(l, w)
  <1>1. w.filter = g /\ w.column = c /\ w.op = op /\ w.param = g
    BY ONLY w = Where(g, c, op), WhereIs
  <1>2. QED  BY <1>1 DEF OwnName, Straight

LEMMA DateConditions ==
    ASSUME NEW l \in {"tickets", "myTickets"}, NEW f \in {"start_date", "end_date"}, NEW op,
           NEW w \in Bounds(f, "created_at", op)
    PROVE  OwnName(w) /\ Straight(l, w)
  <1>1. w.param = w.filter /\ w.filter[1] = f
    BY BoundFields
  <1>2. f \notin Ranged(l)
    BY DEF Ranged
  <1>3. QED  BY <1>1, <1>2 DEF OwnName, Straight

LEMMA ConditionsOf ==
    \A l \in DOMAIN Listing : \A w \in Listing[l].wheres : OwnName(w) /\ Straight(l, w)
  <1>1. ASSUME NEW w \in ConcertWheres, NEW l \in {"concerts", "customers"}
        PROVE  OwnName(w) /\ Straight(l, w)
    <2>1. Ranged(l) = {"concert_available_from", "concert_start_date", "concert_end_date",
                       "venue_capacity"}
      BY DEF Ranged
    <2>2. CASE w = [filter |-> <<"is_active", "">>, column |-> "is_active", op |-> "=",
                    param |-> <<"isActive", "">>]
      <3>1. PICK g : g = <<"is_active", "">>
        OBVIOUS
      <3>2. PICK h : h = <<"isActive", "">>
        OBVIOUS
      <3>3. w.filter = g /\ w.param = h
        BY <2>2, <3>1, <3>2
      <3>4. g[1] = "is_active" /\ g[2] = ""
        BY <3>1
      <3>5. QED  BY <2>1, <3>1, <3>2, <3>3, <3>4 DEF OwnName, Straight
    <2>3. CASE w # [filter |-> <<"is_active", "">>, column |-> "is_active", op |-> "=",
                    param |-> <<"isActive", "">>]
      BY <2>1, <2>3, LikeConditions, RangeConditions DEF ConcertWheres
    <2>4. QED  BY <2>2, <2>3
  <1>2. ASSUME NEW w \in MemberWheres
        PROVE  OwnName(w) /\ Straight("members", w)
    <2>1. Ranged("members") = {}
      BY DEF Ranged
    <2>2. QED  BY <2>1, EqualConditions, LikeConditions DEF MemberWheres
  <1>3. ASSUME NEW w \in PositionWheres
        PROVE  OwnName(w) /\ Straight("positions", w)
    BY EqualConditions DEF PositionWheres
  <1>4. ASSUME NEW w \in RoleWheres
        PROVE  OwnName(w) /\ Straight("roles", w)
    <2>1. Ranged("roles") = {}
      BY DEF Ranged
    <2>2. QED  BY <2>1, EqualConditions, LikeConditions DEF RoleWheres
  <1>5. ASSUME NEW w \in ArtistWheres
        PROVE  OwnName(w) /\ Straight("artists", w)
    <2>1. Ranged("artists") = {}
      BY DEF Ranged
    <2>2. QED  BY <2>1, EqualConditions, LikeConditions DEF ArtistWheres
  <1>6. ASSUME NEW w \in RuleWheres
        PROVE  OwnName(w) /\ Straight("rules", w)
    <2>1. Ranged("rules") = {"available_from"}
      BY DEF Ranged
    <2>2. CASE w \in Equal({"register_rule_id", "concert_id", "is_active"})
      BY <2>2, EqualConditions
    <2>3. CASE w = Where(<<"available_from", "gte">>, "available_from", ">=")
      <3>1. PICK g : g = <<"available_from", "gte">>
        OBVIOUS
      <3>2. g[1] = "available_from" /\ g[2] = "gte" /\ w = Where(g, "available_from", ">=")
        BY <2>3, <3>1
      <3>3. QED  BY <2>1, <3>2, SuffixCondition
    <2>4. CASE w = Where(<<"valid_until", "lte">>, "valid_until", "<=")
      <3>1. PICK g : g = <<"valid_until", "lte">>
        OBVIOUS
      <3>2. g[1] = "valid_until" /\ g[2] = "lte" /\ w = Where(g, "valid_until", "<=")
        BY <2>4, <3>1
      <3>3. QED  BY <2>1, <3>2, OtherCondition
    <2>5. QED  BY <2>2, <2>3, <2>4 DEF RuleWheres
  <1>7. ASSUME NEW w \in TicketWheres, NEW l \in {"tickets", "myTickets"}
        PROVE  OwnName(w) /\ Straight(l, w)
    <2>1. Ranged(l) = {"price"}
      BY DEF Ranged
    <2>2. QED
      BY <2>1, EqualConditions, LikeConditions, RangeConditions, DateConditions DEF TicketWheres
  <1>8. ASSUME NEW w \in CategoryWheres
        PROVE  OwnName(w) /\ Straight("categories", w)
    <2>1. Ranged("categories")
             = {"price", "quantity", "start_date", "end_date", "default_quantity"}
      BY DEF Ranged
    <2>2. QED
      BY <2>1, EqualConditions, LikeConditions, RangeConditions DEF CategoryWheres
  <1>9. ASSUME NEW w \in OrderWheres, NEW l \in {"orders", "myOrders"}
        PROVE  OwnName(w) /\ Straight(l, w)
    <2>1. Ranged(l) = {"total_price"}
      BY DEF Ranged
    <2>2. CASE w = Where(<<"total_price", "gte">>, "total_price", ">=")
      <3>1. PICK g : g = <<"total_price", "gte">>
        OBVIOUS
      <3>2. g[1] = "total_price" /\ g[2] = "gte" /\ w = Where(g, "total_price", ">=")
        BY <2>2, <3>1
      <3>3. QED  BY <2>1, <3>2, SuffixCondition
    <2>3. CASE w = Where(<<"total_price", "lte">>, "total_price", "<=")
      <3>1. PICK g : g = <<"total_price", "lte">>
        OBVIOUS
      <3>2. g[1] = "total_price" /\ g[2] = "lte" /\ w = Where(g, "total_price", "<=")
        BY <2>3, <3>1
      <3>3. QED  BY <2>1, <3>2, SuffixCondition
    <2>4. CASE w = Where(<<"start_date", "">>, "created_at", ">=")
      <3>1. PICK g : g = <<"start_date", "">>
        OBVIOUS
      <3>2. g[1] = "start_date" /\ g[2] = "" /\ w = Where(g, "created_at", ">=")
        BY <2>4, <3>1
      <3>3. QED  BY <2>1, <3>2, OtherCondition
    <2>5. CASE w = Where(<<"end_date", "">>, "created_at", "<=")
      <3>1. PICK g : g = <<"end_date", "">>
        OBVIOUS
      <3>2. g[1] = "end_date" /\ g[2] = "" /\ w = Where(g, "created_at", "<=")
        BY <2>5, <3>1
      <3>3. QED  BY <2>1, <3>2, OtherCondition
    <2>6. CASE \/ w \in Equal({"register_id", "status", "payment_method"})
               \/ w \in Equal({"user_id", "email"})
      BY <2>6, EqualConditions
    <2>7. QED  BY <2>2, <2>3, <2>4, <2>5, <2>6 DEF OrderWheres, OrderColumns
  <1>10. ASSUME NEW w \in UserWheres
         PROVE  OwnName(w) /\ Straight("users", w)
    <2>1. Ranged("users") = {"birth_date"}
      BY DEF Ranged
    <2>2. CASE w = Where(<<"birth_date", "gt">>, "birth_date", ">")
      <3>1. PICK g : g = <<"birth_date", "gt">>
        OBVIOUS
      <3>2. g[1] = "birth_date" /\ g[2] = "gt" /\ w = Where(g, "birth_date", ">")
        BY <2>2, <3>1
      <3>3. QED  BY <2>1, <3>2, SuffixCondition
    <2>3. CASE w = Where(<<"birth_date", "lt">>, "birth_date", "<")
      <3>1. PICK g : g = <<"birth_date", "lt">>
        OBVIOUS
      <3>2. g[1] = "birth_date" /\ g[2] = "lt" /\ w = Where(g, "birth_date", "<")
        BY <2>3, <3>1
      <3>3. QED  BY <2>1, <3>2, SuffixCondition
    <2>4. CASE ~(\/ w = Where(<<"birth_date", "gt">>, "birth_date", ">")
                 \/ w = Where(<<"birth_date", "lt">>, "birth_date", "<"))
      BY <2>1, <2>4, EqualConditions, LikeConditions, RangeConditions DEF UserWheres
    <2>5. QED  BY <2>2, <2>3, <2>4
  <1>11. MyTicketWheres \subseteq TicketWheres /\ MyOrderWheres \subseteq OrderWheres
    BY DEF MyTicketWheres, MyOrderWheres, OrderWheres
  <1>12. QED
    BY <1>1, <1>2, <1>3, <1>4, <1>5, <1>6, <1>7, <1>8, <1>9, <1>10, <1>11, ListingsAre, WheresOf

----

\* The conditions that bind a name.
Setters(l, q, param) == {w \in Listing[l].wheres : w.filter \in DOMAIN q /\ w.param = param}

LEMMA BoundBySetters ==
    ASSUME NEW l, NEW q, NEW param
    PROVE  Bound(l, q, param) = IF Setters(l, q, param) = {} THEN Listing[l].bound[param]
                                ELSE q[(CHOOSE w \in Setters(l, q, param) : TRUE).filter]
  BY Zenon DEF Bound, Setters

\* Two conditions that bind one name have one filter, so a name has the value
\* that its filter has in the query.
LEMMA BoundIsGiven ==
    ASSUME NEW l \in DOMAIN Listing, NEW q, NEW w \in Listing[l].wheres, w.filter \in DOMAIN q
    PROVE  Bound(l, q, w.param) = q[w.filter]
  <1>1. OwnName(w)
    BY ConditionsOf
  <1>2. ASSUME NEW u \in Setters(l, q, w.param)
        PROVE  u.filter = w.filter
    <2>1. OwnName(u) /\ u.param = w.param
      BY ConditionsOf DEF Setters
    <2>2. PICK g : g = <<"isActive", "">>
      OBVIOUS
    <2>3. PICK h : h = <<"is_active", "">>
      OBVIOUS
    <2>4. /\ u.param = u.filter \/ (u.filter = h /\ u.param = g)
          /\ w.param = w.filter \/ (w.filter = h /\ w.param = g)
          /\ u.filter[1] # "isActive" /\ w.filter[1] # "isActive"
      BY <1>1, <2>1, <2>2, <2>3, Zenon DEF OwnName
    <2>5. g[1] = "isActive"
      BY <2>2
    <2>6. QED  BY <2>1, <2>4, <2>5
  <1>3. w \in Setters(l, q, w.param)
    BY DEF Setters
  <1>4. PICK u : u = CHOOSE x \in Setters(l, q, w.param) : TRUE
    OBVIOUS
  <1>5. u \in Setters(l, q, w.param)
    BY <1>3, <1>4, Zenon
  <1>6. Bound(l, q, w.param) = q[u.filter]
    BY <1>3, <1>4, BoundBySetters, Zenon
  <1>7. QED  BY <1>2, <1>5, <1>6

\* The names a listing binds itself are bound by no parameter, except isActive
\* by is_active.
LEMMA SettersOfOwn ==
    ASSUME NEW l \in DOMAIN Listing, NEW q,
           NEW param \in {<<"now", "">>, <<"isActive", "">>, <<"user", "">>},
           NEW w \in Setters(l, q, param)
    PROVE  param = <<"isActive", "">> /\ w.filter[1] = "is_active"
  <1>1. OwnName(w) /\ w.param = param
    BY ConditionsOf DEF Setters
  <1>2. PICK g : g = <<"isActive", "">>
    OBVIOUS
  <1>3. PICK n : n = <<"now", "">>
    OBVIOUS
  <1>4. PICK u : u = <<"user", "">>
    OBVIOUS
  <1>5. g[1] = "isActive" /\ n[1] = "now" /\ u[1] = "user"
    BY <1>2, <1>3, <1>4
  <1>6. /\ param \in {n, g, u}
        /\ w.param = w.filter \/ (w.filter[1] = "is_active" /\ w.param = g)
        /\ w.filter[1] # "isActive" /\ w.filter[1] # "now" /\ w.filter[1] # "user"
    BY <1>1, <1>2, <1>3, <1>4, Zenon DEF OwnName
  <1>7. w.param = g /\ w.filter[1] = "is_active"
    BY <1>1, <1>5, <1>6
  <1>8. QED  BY <1>1, <1>2, <1>7

\* A parameter more narrows what a query gives.
LEMMA OneMoreNarrows ==
    ASSUME NEW l \in DOMAIN Listing, NEW q, NEW f, f \notin DOMAIN q, NEW q2,
           DOMAIN q2 = DOMAIN q \cup {f}, \A g \in DOMAIN q : q2[g] = q[g],
           ~(l = "customers" /\ f[1] = "is_active"), NEW C
    PROVE  Result(l, q2, C) \subseteq Result(l, q, C)
  <1>1. DOMAIN q2 = DOMAIN q \cup {f} /\ \A g \in DOMAIN q : q2[g] = q[g]
    OBVIOUS
  <1>2. Errs(l, q) => Errs(l, q2)
    BY <1>1 DEF Errs
  <1>3. ASSUME NEW w \in Active(l, q)
        PROVE  w \in Active(l, q2) /\ Bound(l, q2, w.param) = Bound(l, q, w.param)
    <2>1. w \in Active(l, q2)
      BY <1>1 DEF Active
    <2>2. CASE w \in Listing[l].wheres /\ w.filter \in DOMAIN q
      <3>1. Bound(l, q, w.param) = q[w.filter]
        BY <2>2, BoundIsGiven
      <3>2. Bound(l, q2, w.param) = q2[w.filter]
        BY <1>1, <2>2, BoundIsGiven
      <3>3. QED  BY <1>1, <2>1, <2>2, <3>1, <3>2
    <2>3. CASE w \in Listing[l].always
      <3>1. /\ w.param \in {<<"now", "">>, <<"isActive", "">>, <<"user", "">>}
            /\ w.param = <<"isActive", "">> => l = "customers"
        BY <2>3, AlwaysOf, Zenon
      <3>2. ASSUME NEW u \in Setters(l, q2, w.param)
            PROVE  u \in Setters(l, q, w.param)
        <4>1. l = "customers" /\ u.filter[1] = "is_active"
          BY <3>1, SettersOfOwn, Zenon
        <4>2. u \in Listing[l].wheres /\ u.filter \in DOMAIN q2 /\ u.param = w.param
          BY DEF Setters
        <4>3. u.filter # f
          BY <4>1
        <4>4. QED  BY <1>1, <4>2, <4>3 DEF Setters
      <3>3. Setters(l, q, w.param) \subseteq Setters(l, q2, w.param)
        BY <1>1 DEF Setters
      <3>4. Setters(l, q2, w.param) = Setters(l, q, w.param)
        BY <3>2, <3>3
      <3>5. PICK u : u = CHOOSE x \in Setters(l, q, w.param) : TRUE
        OBVIOUS
      <3>6. CASE Setters(l, q, w.param) = {}
        BY <2>1, <3>4, <3>6, BoundBySetters, Zenon
      <3>7. CASE Setters(l, q, w.param) # {}
        <4>1. u \in Setters(l, q, w.param)
          BY <3>5, <3>7, Zenon
        <4>2. Bound(l, q, w.param) = q[u.filter] /\ Bound(l, q2, w.param) = q2[u.filter]
          BY <3>4, <3>5, <3>7, BoundBySetters, Zenon
        <4>3. u.filter \in DOMAIN q
          BY <4>1 DEF Setters
        <4>4. QED  BY <1>1, <2>1, <4>2, <4>3
      <3>8. QED  BY <3>6, <3>7
    <2>4. QED  BY <2>2, <2>3 DEF Active
  <1>4. CASE Errs(l, q2)
    BY <1>4 DEF Result
  <1>5. CASE ~Errs(l, q2)
    <2>1. Result(l, q2, C)
            = {row \in [C -> ColumnValues] :
                  \A w \in Active(l, q2) : Matches(w.op, row[w.column], Bound(l, q2, w.param))}
      BY <1>5, Zenon DEF Result
    <2>2. Result(l, q, C)
            = {row \in [C -> ColumnValues] :
                  \A w \in Active(l, q) : Matches(w.op, row[w.column], Bound(l, q, w.param))}
      BY <1>2, <1>5, Zenon DEF Result
    <2>3. ASSUME NEW row \in Result(l, q2, C)
          PROVE  row \in Result(l, q, C)
      <3>1. ASSUME NEW w \in Active(l, q)
            PROVE  Matches(w.op, row[w.column], Bound(l, q, w.param))
        <4>1. w \in Active(l, q2) /\ Bound(l, q2, w.param) = Bound(l, q, w.param)
          BY <1>3
        <4>2. Matches(w.op, row[w.column], Bound(l, q2, w.param))
          BY <2>1, <2>3, <4>1, Zenon
        <4>3. QED  BY <4>1, <4>2, Zenon
      <3>2. row \in [C -> ColumnValues]
        BY <2>1, <2>3, Zenon
      <3>3. QED  BY <2>2, <3>1, <3>2, Zenon
    <2>4. QED  BY <2>3
  <1>6. QED  BY <1>4, <1>5

\* The condition of a field that takes bounds, as its suffix says.
LEMMA RangedCondition ==
    ASSUME NEW l \in DOMAIN Listing, NEW w \in Listing[l].wheres, w.filter[1] \in Ranged(l)
    PROVE  /\ w.column = w.filter[1]
           /\ w.filter[2] = "" => w.op = "="
           /\ w.filter[2] = "gte" => w.op = ">="
           /\ w.filter[2] = "lte" => w.op = "<="
  <1>1. Straight(l, w)
    BY ConditionsOf, Zenon
  <1>2. QED  BY <1>1, Zenon DEF Straight

\* A name the listing binds itself keeps its value while the query has only
\* fields that take bounds.
LEMMA OwnBound ==
    ASSUME NEW l \in DOMAIN Listing, NEW q, \A g \in DOMAIN q : g[1] \in Ranged(l),
           NEW w \in Listing[l].always
    PROVE  Bound(l, q, w.param) = Listing[l].bound[w.param]
  <1>1. w.param \in {<<"now", "">>, <<"isActive", "">>, <<"user", "">>}
    BY AlwaysOf, Zenon
  <1>2. "is_active" \notin Ranged(l)
    BY DEF Ranged
  <1>3. ASSUME NEW u \in Setters(l, q, w.param)
        PROVE  FALSE
    <2>1. u.filter[1] = "is_active"
      BY <1>1, SettersOfOwn, Zenon
    <2>2. u.filter \in DOMAIN q
      BY DEF Setters
    <2>3. QED  BY <1>2, <2>1, <2>2
  <1>4. Setters(l, q, w.param) = {}
    BY <1>3
  <1>5. QED  BY <1>4, BoundBySetters, Zenon

LEMMA BothBounds ==
    ASSUME NEW x \in ColumnValues, NEW v \in Given
    PROVE  Matches("=", x, v) <=> Matches(">=", x, v) /\ Matches("<=", x, v)
  BY DEF Matches, ColumnValues, Given, NullValue

\* The parameters of a field of a listing: its two bounds and its value.
Parameters(l, lower, upper, plain) ==
    /\ lower[1] \in Ranged(l) /\ upper[1] = lower[1] /\ plain[1] = lower[1]
    /\ lower[2] = "gte" /\ upper[2] = "lte" /\ plain[2] = ""
    /\ lower \in Filters(l) /\ upper \in Filters(l) /\ plain \in Filters(l)

\* Both bounds are what p asks for.
SameValue(q, p, lower, upper, plain) ==
    /\ DOMAIN q = {lower, upper} /\ q[lower] \in Given /\ q[upper] = q[lower]
    /\ DOMAIN p = {plain} /\ p[plain] = q[lower]

\* Both bounds at once give what the value itself gives.
LEMMA BoundsGiveValue ==
    ASSUME NEW l \in DOMAIN Listing, NEW lower, NEW upper, NEW plain,
           Parameters(l, lower, upper, plain),
           NEW q, NEW p, SameValue(q, p, lower, upper, plain)
    PROVE  Result(l, q, Touched(l, q)) = Result(l, p, Touched(l, q))
  <1> USE DEF Parameters, SameValue
  <1>a. PICK f \in Ranged(l) : lower[1] = f /\ upper[1] = f /\ plain[1] = f
    OBVIOUS
  <1>b. PICK v \in Given : q[lower] = v /\ q[upper] = v /\ p[plain] = v
    OBVIOUS
  <1> DEFINE C == Touched(l, q)
  <1>1. DOMAIN p = {plain} /\ p[plain] = v
    BY <1>b
  <1>2. \A g \in {lower, upper, plain} : g[1] \in Ranged(l) /\ g \notin Listing[l].fails
    <2>1. \A g \in {lower, upper, plain} : g[1] \in Ranged(l)
      BY <1>a
    <2>2. \A g \in Listing[l].fails : g[1] \notin Ranged(l)
      BY AlwaysOf, Zenon
    <2>3. QED  BY <2>1, <2>2, Zenon
  <1>3. Errs(l, q) <=> Errs(l, p)
    BY <1>1, <1>2 DEF Errs
  <1>4. PICK wl \in Listing[l].wheres : wl.filter = lower
    BY DEF Filters
  <1>5. PICK wu \in Listing[l].wheres : wu.filter = upper
    BY DEF Filters
  <1>6. PICK wp \in Listing[l].wheres : wp.filter = plain
    BY DEF Filters
  <1>7. \A w \in Listing[l].wheres :
           w.filter = lower => w.column = f /\ w.op = ">=" /\ Bound(l, q, w.param) = v
    <2>1. ASSUME NEW w \in Listing[l].wheres, w.filter = lower
          PROVE  w.column = f /\ w.op = ">=" /\ Bound(l, q, w.param) = v
      <3>0. w.filter[1] = f /\ w.filter[2] = "gte"
        BY <1>a, <2>1
      <3>1. w.column = f /\ w.op = ">="
        BY <3>0, RangedCondition, Zenon
      <3>2. Bound(l, q, w.param) = q[w.filter]
        BY <2>1, BoundIsGiven
      <3>3. QED  BY <1>b, <2>1, <3>1, <3>2
    <2>2. QED  BY <2>1
  <1>8. \A w \in Listing[l].wheres :
           w.filter = upper => w.column = f /\ w.op = "<=" /\ Bound(l, q, w.param) = v
    <2>1. ASSUME NEW w \in Listing[l].wheres, w.filter = upper
          PROVE  w.column = f /\ w.op = "<=" /\ Bound(l, q, w.param) = v
      <3>0. w.filter[1] = f /\ w.filter[2] = "lte"
        BY <1>a, <2>1
      <3>1. w.column = f /\ w.op = "<="
        BY <3>0, RangedCondition, Zenon
      <3>2. Bound(l, q, w.param) = q[w.filter]
        BY <2>1, BoundIsGiven
      <3>3. QED  BY <1>b, <2>1, <3>1, <3>2
    <2>2. QED  BY <2>1
  <1>9. \A w \in Listing[l].wheres :
           w.filter = plain => w.column = f /\ w.op = "=" /\ Bound(l, p, w.param) = v
    <2>1. ASSUME NEW w \in Listing[l].wheres, w.filter = plain
          PROVE  w.column = f /\ w.op = "=" /\ Bound(l, p, w.param) = v
      <3>0. w.filter[1] = f /\ w.filter[2] = ""
        BY <1>a, <2>1
      <3>1. w.column = f /\ w.op = "="
        BY <3>0, RangedCondition, Zenon
      <3>2. Bound(l, p, w.param) = p[w.filter]
        BY <1>1, <2>1, BoundIsGiven
      <3>3. QED  BY <1>1, <2>1, <3>1, <3>2
    <2>2. QED  BY <2>1
  <1>10. \A w \in Listing[l].always : Bound(l, p, w.param) = Bound(l, q, w.param)
    <2>1. /\ \A g \in DOMAIN p : g[1] \in Ranged(l)
          /\ \A g \in DOMAIN q : g[1] \in Ranged(l)
      BY <1>1, <1>2
    <2>2. ASSUME NEW w \in Listing[l].always
          PROVE  Bound(l, p, w.param) = Bound(l, q, w.param)
      <3>1. Bound(l, p, w.param) = Listing[l].bound[w.param]
        BY <2>1, OwnBound, Zenon
      <3>2. Bound(l, q, w.param) = Listing[l].bound[w.param]
        BY <2>1, OwnBound, Zenon
      <3>3. QED  BY <3>1, <3>2, Zenon
    <2>3. QED  BY <2>2, Zenon
  <1>11. /\ \A w : w \in Active(l, q) <=>
               w \in Listing[l].always \/ (w \in Listing[l].wheres /\ w.filter \in {lower, upper})
         /\ \A w : w \in Active(l, p) <=>
               w \in Listing[l].always \/ (w \in Listing[l].wheres /\ w.filter = plain)
    BY <1>1 DEF Active
  <1>12. f \in C
    <2>1. wl \in Active(l, q) /\ wl.column = f
      BY <1>4, <1>7, <1>11
    <2>2. QED  BY <2>1 DEF Touched
  <1> DEFINE Gives(s, row) ==
        \A w \in Active(l, s) : Matches(w.op, row[w.column], Bound(l, s, w.param))
  <1>13. ASSUME NEW row \in [C -> ColumnValues]
         PROVE  Gives(q, row) <=> Gives(p, row)
    <2>1. row[f] \in ColumnValues
      BY <1>12
    <2>2. ASSUME Gives(q, row), NEW w \in Active(l, p)
          PROVE  Matches(w.op, row[w.column], Bound(l, p, w.param))
      <3>1. CASE w \in Listing[l].always
        BY <1>10, <1>11, <2>2, <3>1
      <3>2. CASE w \in Listing[l].wheres /\ w.filter = plain
        <4>1. Matches(wl.op, row[wl.column], Bound(l, q, wl.param))
          BY <1>4, <1>11, <2>2
        <4>2. Matches(wu.op, row[wu.column], Bound(l, q, wu.param))
          BY <1>5, <1>11, <2>2
        <4>3. Matches(">=", row[f], v) /\ Matches("<=", row[f], v)
          BY <1>4, <1>5, <1>7, <1>8, <4>1, <4>2
        <4>4. Matches("=", row[f], v)
          BY <2>1, <4>3, BothBounds
        <4>5. QED  BY <1>9, <3>2, <4>4
      <3>3. QED  BY <1>11, <2>2, <3>1, <3>2
    <2>3. ASSUME Gives(p, row), NEW w \in Active(l, q)
          PROVE  Matches(w.op, row[w.column], Bound(l, q, w.param))
      <3>1. CASE w \in Listing[l].always
        BY <1>10, <1>11, <2>3, <3>1
      <3>2. CASE w \in Listing[l].wheres /\ w.filter \in {lower, upper}
        <4>1. Matches(wp.op, row[wp.column], Bound(l, p, wp.param))
          BY <1>6, <1>11, <2>3
        <4>2. Matches("=", row[f], v)
          BY <1>6, <1>9, <4>1
        <4>3. Matches(">=", row[f], v) /\ Matches("<=", row[f], v)
          BY <2>1, <4>2, BothBounds
        <4>4. QED  BY <1>7, <1>8, <3>2, <4>3
      <3>3. QED  BY <1>11, <2>3, <3>1, <3>2
    <2>4. QED  BY <2>2, <2>3
  <1>14. CASE Errs(l, q)
    BY <1>3, <1>14 DEF Result
  <1>15. CASE ~Errs(l, q)
    <2>1. Result(l, q, C) = {row \in [C -> ColumnValues] : Gives(q, row)}
      BY <1>15, Zenon DEF Result
    <2>2. Result(l, p, C) = {row \in [C -> ColumnValues] : Gives(p, row)}
      BY <1>3, <1>15, Zenon DEF Result
    <2>3. HIDE DEF Gives
    <2>4. QED  BY <1>13, <2>1, <2>2
  <1>16. QED  BY <1>14, <1>15

LEMMA ListingIsOf == Spec => [](listing \in DOMAIN Listing \cup {None})
  <1>1. WalkInv => listing \in DOMAIN Listing \cup {None}
    BY DEF WalkInv
  <1>2. QED  BY <1>1, WalkInvHolds, PTL

\* The parameters of the client are filters of its listing, with values given.
QueryInv ==
    listing # None => \A f \in DOMAIN query : f \in Filters(listing) /\ query[f] \in Given

\* Only a parameter more changes the query.
LEMMA QueryMoves ==
    ASSUME [Next]_backofficeVars
    PROVE  UNCHANGED <<listing, query>> \/ AddFilter
  <1>1. CASE UNCHANGED backofficeVars
    BY <1>1 DEF backofficeVars, listingVars
  <1>2. CASE ListingsAlone
    BY <1>2 DEF ListingsAlone, ListingsStep, NextPage
  <1>3. CASE ~ListingsAlone /\ Next
    BY <1>3 DEF Next, Arrive, CatalogueAlone, MediaAlone, StoreFault, RegistrationAlone,
                ProcessEnds, Terminating, backofficeVars, listingVars
  <1>4. QED  BY <1>1, <1>2, <1>3

LEMMA QueryInvHolds == Spec => []QueryInv
  <1>1. Init => QueryInv
    <2> SUFFICES ASSUME Init  PROVE QueryInv
      OBVIOUS
    <2>1. query = [f \in {} |-> 1]
      BY DEF Init, ListingsInit
    <2>2. QED  BY <2>1 DEF QueryInv
  <1>2. QueryInv /\ [Next]_backofficeVars => QueryInv'
    <2> SUFFICES ASSUME QueryInv, [Next]_backofficeVars  PROVE QueryInv'
      OBVIOUS
    <2>1. CASE UNCHANGED <<listing, query>>
      BY <2>1 DEF QueryInv
    <2>2. CASE AddFilter
      <3>1. PICK f \in Filters(listing) \ DOMAIN query, v \in Given :
               query' = [g \in DOMAIN query \cup {f} |-> IF g = f THEN v ELSE query[g]]
        BY <2>2 DEF AddFilter
      <3>2. listing' = listing /\ listing # None
        BY <2>2 DEF AddFilter
      <3>3. \A g \in DOMAIN query : g \in Filters(listing) /\ query[g] \in Given
        BY <3>2 DEF QueryInv
      <3>4. \A g \in DOMAIN query' : g \in Filters(listing) /\ query'[g] \in Given
        BY <3>1, <3>3
      <3>5. QED  BY <3>2, <3>4 DEF QueryInv
    <2>3. QED  BY <2>1, <2>2, QueryMoves
  <1>3. QED  BY <1>1, <1>2, PTL DEF Spec

\* A parameter more never gives a row more, in any listing and with any values:
\* the names that the listings of the services bind are those of their filters.
THEOREM FiltersNarrow == Spec => FilterNarrows
  <1> DEFINE Narrows ==
        listing # None /\ query' # query =>
          \/ listing = "customers" /\ \E f \in DOMAIN query' \ DOMAIN query : f[1] = "is_active"
          \/ Result(listing, query', Touched(listing, query'))
                \subseteq Result(listing, query, Touched(listing, query'))
  <1>1. listing \in DOMAIN Listing \cup {None} /\ [Next]_backofficeVars => [Narrows]_query
    <2> SUFFICES ASSUME listing \in DOMAIN Listing \cup {None}, [Next]_backofficeVars,
                        listing # None, query' # query
                 PROVE  Narrows
      OBVIOUS
    <2>1. PICK f \in Filters(listing) \ DOMAIN query, v \in Given :
             query' = [g \in DOMAIN query \cup {f} |-> IF g = f THEN v ELSE query[g]]
      BY QueryMoves DEF AddFilter
    <2>2. /\ DOMAIN query' = DOMAIN query \cup {f} /\ f \notin DOMAIN query
          /\ \A g \in DOMAIN query : query'[g] = query[g]
      BY <2>1
    <2>3. CASE listing = "customers" /\ f[1] = "is_active"
      BY <2>2, <2>3
    <2>4. CASE ~(listing = "customers" /\ f[1] = "is_active")
      <3>1. listing \in DOMAIN Listing
        OBVIOUS
      <3>2. Result(listing, query', Touched(listing, query'))
                \subseteq Result(listing, query, Touched(listing, query'))
        BY <2>2, <2>4, <3>1, OneMoreNarrows, Zenon
      <3>3. QED  BY <3>2
    <2>5. QED  BY <2>3, <2>4
  <1>2. QED  BY <1>1, ListingIsOf, PTL DEF Spec, FilterNarrows

\* Both bounds at once give what the value itself gives, in every listing whose
\* service takes the three.
THEOREM RangesAlwaysAgree == Spec => []RangesAgree
  <1>1. listing \in DOMAIN Listing \cup {None} /\ QueryInv => RangesAgree
    <2>1. SUFFICES ASSUME listing \in DOMAIN Listing, QueryInv, listing # None,
                        NEW f \in Filters(listing), NEW lower, NEW upper, NEW plain,
                        lower = <<f[1], "gte">>, upper = <<f[1], "lte">>, plain = <<f[1], "">>,
                        DOMAIN query = {lower, upper}, f = plain, query[lower] = query[upper],
                        ~(listing \in {"tickets", "myTickets"}
                          /\ f[1] \in {"start_date", "end_date"})
                 PROVE  Result(listing, query, Touched(listing, query)) =
                        Result(listing, [x \in {plain} |-> query[lower]], Touched(listing, query))
      BY Zenon DEF RangesAgree, Filters
    <2>2. listing \in DOMAIN Listing
      BY <2>1
    <2>3. /\ lower \in Filters(listing) /\ upper \in Filters(listing)
          /\ plain \in Filters(listing) /\ query[lower] \in Given
      BY <2>1 DEF QueryInv
    <2>4. /\ lower[1] = f[1] /\ upper[1] = f[1] /\ plain[1] = f[1]
          /\ lower[2] = "gte" /\ upper[2] = "lte" /\ plain[2] = ""
      BY <2>1
    <2>5. lower[1] \in Ranged(listing)
      <3>1. PICK w \in Listing[listing].wheres : w.filter = lower
        BY <2>3 DEF Filters
      <3>2. Straight(listing, w)
        BY <2>2, ConditionsOf, Zenon
      <3>3. w.filter[1] = f[1] /\ w.filter[2] = "gte"
        BY <2>4, <3>1
      <3>4. ~(listing \in {"tickets", "myTickets"} /\ f[1] \in {"start_date", "end_date"})
        BY <2>1
      <3>5. QED  BY <2>4, <3>2, <3>3, <3>4 DEF Straight
    <2>6. DOMAIN query = {lower, upper} /\ query[upper] = query[lower]
      BY <2>1
    <2>7. PICK p : p = [x \in {plain} |-> query[lower]]
      OBVIOUS
    <2>8. DOMAIN p = {plain} /\ p[plain] = query[lower]
      BY <2>7
    <2>9. upper[1] = lower[1] /\ plain[1] = lower[1]
      BY <2>4
    <2>10. Result(listing, query, Touched(listing, query))
              = Result(listing, p, Touched(listing, query))
      <3>1. Parameters(listing, lower, upper, plain)
        BY <2>3, <2>4, <2>5, <2>9 DEF Parameters
      <3>2. SameValue(query, p, lower, upper, plain)
        BY <2>3, <2>6, <2>8 DEF SameValue
      <3>3. QED  BY <2>2, <3>1, <3>2, BoundsGiveValue, Zenon
    <2>11. QED  BY <2>7, <2>10
  <1>2. QED  BY <1>1, ListingIsOf, QueryInvHolds, PTL

==============================================================================
