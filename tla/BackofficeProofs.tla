-------------------------- MODULE BackofficeProofs --------------------------
(***************************************************************************)
(* Proofs about Backoffice: what the tables and the requests in progress    *)
(* hold, and what a step does to the tables, for every value of the         *)
(* constants.                                                               *)
(***************************************************************************)
EXTENDS Backoffice, FiniteSetTheorems, SequenceTheorems, TLAPS

-----------------------------------------------------------------------------
(* The inductive invariant                                                   *)

Saving   == {"readArtist", "diff", "save"}
Ordering == {"order", "markUsed"}
Putting  == {"count", "put", "insertFile", "associate"}
Removing == {"find", "deleteObject", "deleteFile"}

\* The statements of a handler.
Statements(h) ==
    {h} \cup (IF h \in Lineups THEN Saving ELSE {})
        \cup (IF h = "createOrder" THEN Ordering ELSE {})
        \cup (IF h \in DOMAIN Uploads THEN Putting ELSE {})
        \cup (IF h \in DOMAIN Removals THEN Removing ELSE {})
        \cup (IF h = "deleteConcertImages" THEN {"findImage"} ELSE {})

TablesTyped ==
    /\ rows = [k \in Kinds |-> [i \in Ids |-> rows[k][i]]]
    /\ \A k \in Kinds, i \in Ids : IsRow(k, rows[k][i])
    /\ lineup \in [Ids -> SUBSET Ids]
    /\ born \in [Kinds -> SUBSET Ids]
    /\ made \subseteq Codes
    /\ offered \in Offers

\* A request in progress is one of those that can be asked, at a statement of
\* its handler.
Served(p) ==
    IF pc[p] = "idle"
       THEN req[p] = None /\ entity[p] = NoEntity /\ diff[p] = NoDiff /\ key[p] = Null /\ at[p] = 1
       ELSE IsRequest(req[p]) /\ pc[p] \in Statements(req[p].handler)

\* What an assignment has read, and what its save() will write of it.
Remembered(p) ==
    /\ entity[p] = [concert |-> entity[p].concert, lineup |-> entity[p].lineup,
                    artists |-> entity[p].artists]
    /\ pc[p] \in Saving =>
          /\ IsRow("concert", entity[p].concert) /\ entity[p].concert # Gone
          /\ entity[p].lineup \subseteq Ids
          /\ entity[p].artists = [i \in Ids |-> entity[p].artists[i]]
          /\ \A i \in Ids : IsRow("artist", entity[p].artists[i])
    /\ pc[p] = "save" =>
          /\ diff[p].revive \subseteq InMemory(p)
          /\ diff[p].names \subseteq InMemory(p)
          /\ diff[p].add \subseteq InMemory(p)

\* Where a request is in its loop over pictures.
Looping(p) ==
    /\ IF pc[p] \in {"insertFile", "associate", "deleteObject", "deleteFile"}
          THEN key[p] \in Keys ELSE key[p] = Null
    /\ IF pc[p] \in {"put", "insertFile", "associate"}
          THEN at[p] \in 1..req[p].files
       ELSE IF pc[p] # "idle" /\ req[p].handler = "deleteConcertImages"
          THEN at[p] \in 1..Len(req[p].fileIds) ELSE at[p] = 1

PicturesTyped ==
    /\ MediaTypeOK
    /\ association = [k \in Keys |-> association[k]]
    /\ \A k \in Keys : association[k] # Gone =>
          association[k] \in [type : {"artist", "member", "user", "concert"}, id : Ids]

TypeInv ==
    /\ TablesTyped
    /\ pc = [p \in Procs |-> pc[p]] /\ req = [p \in Procs |-> req[p]]
    /\ entity = [p \in Procs |-> entity[p]] /\ diff = [p \in Procs |-> diff[p]]
    /\ \A p \in Procs : Served(p) /\ Remembered(p) /\ Looping(p)
    /\ PicturesTyped

-----------------------------------------------------------------------------
(* Kinds and handlers                                                        *)

LEMMA KindsAre ==
    Kinds = {"venue", "concertGroup", "concert", "artist", "genre", "member", "role", "position",
             "rule", "register", "category", "ticket", "order", "orderLine", "orderTicket"}
  BY DEF Kinds, Entities

\* A handler has its own statements, and the steps inside a handler are no
\* handler's name.
LEMMA StatementsOf ==
    ASSUME TypeInv, NEW p \in Procs, pc[p] # "idle"
    PROVE  /\ IsRequest(req[p])
           /\ pc[p] \in Saving => req[p].handler \in Lineups
           /\ pc[p] \in Ordering => req[p].handler = "createOrder"
           /\ pc[p] \in Putting => req[p].handler \in DOMAIN Uploads
           /\ pc[p] \in Removing => req[p].handler \in DOMAIN Removals
           /\ pc[p] = "findImage" => req[p].handler = "deleteConcertImages"
           /\ pc[p] \notin Saving \cup Ordering \cup Putting \cup Removing \cup {"findImage"}
                => req[p].handler = pc[p]
  <1>1. IsRequest(req[p]) /\ pc[p] \in Statements(req[p].handler)
    BY DEF TypeInv, Served
  <1>2. req[p].handler \in Handlers
    BY <1>1 DEF IsRequest
  <1>3. Handlers \cap (Saving \cup Ordering \cup Putting \cup Removing \cup {"findImage"}) = {}
    BY DEF Handlers, Creations, Changes, Deletions, Uploads, Removals, Lineups, Mails, Saving,
       Ordering, Putting, Removing
  <1>4. QED
    BY <1>1, <1>2, <1>3 DEF Statements, Saving, Ordering, Putting, Removing

-----------------------------------------------------------------------------
(* What a step does to the tables                                            *)

InsertStep(k, row) ==
    /\ NextId(k) \in Ids \ born[k]
    /\ rows' = IF Allowed(k, NextId(k), row) THEN [rows EXCEPT ![k][NextId(k)] = row] ELSE rows
    /\ born' = [born EXCEPT ![k] = @ \cup {NextId(k)}]
    /\ UNCHANGED lineup

UpdateStep(k, i, body) ==
    LET new == Patch(rows[k][i], body)
    IN  /\ rows' = IF rows[k][i] # Gone /\ Allowed(k, i, new)
                      THEN [rows EXCEPT ![k][i] = new] ELSE rows
        /\ UNCHANGED <<born, lineup>>

DeleteStep(k, i) ==
    /\ rows' = IF ~Held(k, i) THEN [rows EXCEPT ![k][i] = Gone] ELSE rows
    /\ lineup' = CASE ~Held(k, i) /\ k = "concert" -> [lineup EXCEPT ![i] = {}]
                   [] ~Held(k, i) /\ k = "artist" -> [c \in Ids |-> lineup[c] \ {i}]
                   [] OTHER -> lineup
    /\ UNCHANGED born

NewRow(h, row) ==
    /\ IsRow(Creations[h], row) /\ row # Gone
    /\ h = "createRegister" => row.concert # Null /\ row.used = FALSE

TableStep(p) ==
    \/ UNCHANGED <<rows, lineup, born>>
    \/ \E h \in DOMAIN Creations : \E row :
          NewRow(h, row) /\ InsertStep(Creations[h], row)
    \/ \E h \in DOMAIN Changes :
          /\ pc[p] = h /\ req[p].id \in Ids /\ IsChange(Changes[h], req[p].body)
          /\ UpdateStep(Changes[h], req[p].id, req[p].body)
    \/ \E h \in DOMAIN Deletions :
          pc[p] = h /\ req[p].id \in Ids /\ DeleteStep(Deletions[h], req[p].id)
    \/ PlaceOrder(p) \/ MarkUsed(p) \/ Save(p)

LEMMA NextIdIsNew ==
    ASSUME NEW k, ~(Ids \subseteq born[k])
    PROVE  NextId(k) \in Ids \ born[k]
  BY DEF NextId

LEMMA NextCodeIsNew ==
    ASSUME ~(Codes \subseteq made)
    PROVE  NextCode \in Codes \ made
  BY DEF NextCode

\* A row is a function on the columns of its table, so it is not Gone.
LEMMA RowsAreThere ==
    ASSUME NEW k \in Kinds, NEW row, row = [c \in Entities[k].columns |-> row[c]],
           \A c \in Entities[k].columns : row[c] \in ColumnType(c)
    PROVE  IsRow(k, row) /\ row # Gone
  <1>1. \A c \in Entities[k].columns : row[c] \in Values
    BY BoundsAssumption DEF ColumnType, Values
  <1>2. row \in [Entities[k].columns -> Values]
    BY <1>1
  <1>3. QED  BY <1>2, NothingAssumption DEF IsRow

LEMMA HooksFormatNames ==
    \A k \in Kinds : Entities[k].hook => "name" \in Entities[k].columns
  BY KindsAre DEF Entities, VenueEntity, ConcertGroupEntity, ArtistEntity, GenreEntity,
     MemberEntity, RoleEntity, ConcertEntity, PositionEntity, RuleEntity, RegisterEntity,
     CategoryEntity, TicketEntity, OrderEntity, OrderLineEntity, OrderTicketEntity

LEMMA CodesAreOf ==
    \A k \in Kinds : "code" \in Entities[k].columns <=> k \in {"position", "ticket"}
  BY KindsAre DEF Entities, VenueEntity, ConcertGroupEntity, ArtistEntity, GenreEntity,
     MemberEntity, RoleEntity, ConcertEntity, PositionEntity, RuleEntity, RegisterEntity,
     CategoryEntity, TicketEntity, OrderEntity, OrderLineEntity, OrderTicketEntity

\* The hooks make a row of a row.
LEMMA FormattedRow ==
    ASSUME NEW k \in Kinds, NEW row, row = [c \in Entities[k].columns |-> row[c]],
           \A c \in Entities[k].columns : row[c] \in ColumnType(c)
    PROVE  /\ Formatted(k, row) = [c \in Entities[k].columns |-> Formatted(k, row)[c]]
           /\ \A c \in Entities[k].columns : Formatted(k, row)[c] \in ColumnType(c)
           /\ \A c \in Entities[k].columns \ {"name"} : Formatted(k, row)[c] = row[c]
           /\ k = "register" => Formatted(k, row) = row
  <1>1. CASE ~Entities[k].hook
    BY <1>1 DEF Formatted
  <1>2. CASE Entities[k].hook
    <2>1. "name" \in Entities[k].columns
      BY <1>2, HooksFormatNames
    <2>2. row.name \in Names /\ ColumnType("name") = Names
      BY <2>1 DEF ColumnType
    <2>3. Canonical[row.name] \in ColumnType("name")
      BY <2>2, BoundsAssumption
    <2>4. Formatted(k, row) = [row EXCEPT !.name = Canonical[row.name]]
      BY <1>2 DEF Formatted
    <2>5. k # "register"
      BY <1>2 DEF Entities, RegisterEntity
    <2>6. QED  BY <2>1, <2>3, <2>4, <2>5
  <1>3. QED  BY <1>1, <1>2

\* The request of a handler that creates, changes or deletes rows.
LEMMA RequestOf ==
    ASSUME TypeInv, NEW p \in Procs, NEW h \in Handlers, pc[p] = h
    PROVE  IsRequest(req[p]) /\ req[p].handler = h
  <1>1. h # "idle" /\ h \notin Saving \cup Ordering \cup Putting \cup Removing \cup {"findImage"}
    BY DEF Handlers, Creations, Changes, Deletions, Uploads, Removals, Lineups, Mails, Saving,
       Ordering, Putting, Removing
  <1>2. QED  BY <1>1, StatementsOf

LEMMA CreatedRow ==
    ASSUME TypeInv, NEW p \in Procs, NEW h \in DOMAIN Creations, pc[p] = h,
           h \notin {"createConcertPosition", "createTicket"}
    PROVE  NewRow(h, Formatted(Creations[h], req[p].body))
  <1>1. /\ Creations[h] \in Kinds
        /\ Creations[h] \notin {"position", "ticket"}
        /\ h = "createRegister" => Creations[h] = "register"
        /\ h \in Handlers
    BY KindsAre DEF Creations, Handlers
  <1>2. /\ IsNew(Creations[h], req[p].body)
        /\ h = "createRegister" => req[p].body.concert # Null /\ req[p].body.used = FALSE
    BY <1>1, RequestOf DEF IsRequest
  <1>3. "code" \notin Entities[Creations[h]].columns
    BY <1>1, CodesAreOf
  <1>4. /\ req[p].body = [c \in Entities[Creations[h]].columns |-> req[p].body[c]]
        /\ \A c \in Entities[Creations[h]].columns : req[p].body[c] \in ColumnType(c)
    BY <1>2, <1>3 DEF IsNew
  <1>5. QED
    BY <1>1, <1>2, <1>4, FormattedRow, RowsAreThere DEF NewRow

\* createConcertRole and createTicket make the code themselves.
LEMMA CodedRow ==
    ASSUME TypeInv, NEW p \in Procs, NEW h \in {"createConcertPosition", "createTicket"},
           pc[p] = h, ~(Codes \subseteq made)
    PROVE  NewRow(h, [req[p].body EXCEPT !.code = NextCode])
  <1>1. Creations[h] \in {"position", "ticket"} /\ Creations[h] \in Kinds /\ h \in Handlers
    BY KindsAre DEF Creations, Handlers
  <1>2. IsNew(Creations[h], req[p].body) /\ h # "createRegister"
    BY <1>1, RequestOf DEF IsRequest, Creations
  <1>3. NextCode \in ColumnType("code") /\ "code" \in Entities[Creations[h]].columns
    BY <1>1, NextCodeIsNew, CodesAreOf DEF ColumnType
  <1>4. /\ [req[p].body EXCEPT !.code = NextCode]
              = [c \in Entities[Creations[h]].columns |->
                    [req[p].body EXCEPT !.code = NextCode][c]]
        /\ \A c \in Entities[Creations[h]].columns :
              [req[p].body EXCEPT !.code = NextCode][c] \in ColumnType(c)
    BY <1>2, <1>3 DEF IsNew
  <1>5. QED  BY <1>1, <1>2, <1>4, RowsAreThere DEF NewRow

LEMMA CreatesStep ==
    ASSUME TypeInv, NEW p \in Procs, NEW h \in DOMAIN Creations,
           h \notin {"createConcertPosition", "createTicket"}, Creates(p, h, Creations[h])
    PROVE  TableStep(p)
  <1>1. pc[p] = h /\ ~(Ids \subseteq born[Creations[h]])
    BY DEF Creates, Inserts
  <1>2. InsertStep(Creations[h], Formatted(Creations[h], req[p].body))
    BY <1>1, NextIdIsNew DEF Creates, Inserts, InsertStep
  <1>3. QED  BY <1>1, <1>2, CreatedRow DEF TableStep

LEMMA CodedStep ==
    ASSUME TypeInv, NEW p \in Procs, NEW h \in {"createConcertPosition", "createTicket"},
           pc[p] = h, ~(Codes \subseteq made),
           Inserts(p, Creations[h], [req[p].body EXCEPT !.code = NextCode])
    PROVE  TableStep(p)
  <1>1. ~(Ids \subseteq born[Creations[h]]) /\ h \in DOMAIN Creations
    BY DEF Inserts, Creations
  <1>2. InsertStep(Creations[h], [req[p].body EXCEPT !.code = NextCode])
    BY <1>1, NextIdIsNew DEF Inserts, InsertStep
  <1>3. QED  BY <1>1, <1>2, CodedRow DEF TableStep

LEMMA UpdatesStep ==
    ASSUME TypeInv, NEW p \in Procs, NEW h \in DOMAIN Changes, Updates(p, h, Changes[h])
    PROVE  TableStep(p)
  <1>1. h \in Handlers /\ h \notin DOMAIN Creations /\ pc[p] = h
    BY DEF Handlers, Changes, Creations, Updates
  <1>2. req[p].id \in Ids /\ IsChange(Changes[h], req[p].body)
    BY <1>1, RequestOf DEF IsRequest
  <1>3. UpdateStep(Changes[h], req[p].id, req[p].body)
    BY DEF Updates, UpdateStep
  <1>4. QED  BY <1>1, <1>2, <1>3 DEF TableStep

LEMMA DeletesStep ==
    ASSUME TypeInv, NEW p \in Procs, NEW h \in DOMAIN Deletions, Deletes(p, h, Deletions[h])
    PROVE  TableStep(p)
  <1>1. h \in Handlers /\ h \notin DOMAIN Creations /\ pc[p] = h
    BY DEF Handlers, Deletions, Creations, Deletes
  <1>2. req[p].id \in Ids
    BY <1>1, RequestOf DEF IsRequest
  <1>3. DeleteStep(Deletions[h], req[p].id)
    BY DEF Deletes, DeleteStep
  <1>4. QED  BY <1>1, <1>2, <1>3 DEF TableStep

\* A step changes the tables by one statement of one request, or not at all.
LEMMA TableSteps ==
    ASSUME TypeInv, Next
    PROVE  UNCHANGED <<rows, lineup, born>> \/ \E p \in Procs : TableStep(p)
  <1>1. ASSUME NEW p \in Procs, CatalogueStep(p)
        PROVE  TableStep(p)
    <2>1. CASE Genres(p) \/ Groups(p) \/ Venues(p)
      <3>1. \E h \in DOMAIN Creations, g \in DOMAIN Changes, d \in DOMAIN Deletions :
               /\ h \notin {"createConcertPosition", "createTicket"}
               /\ \/ Creates(p, h, Creations[h]) \/ Updates(p, g, Changes[g])
                  \/ Deletes(p, d, Deletions[d])
        BY <2>1 DEF Genres, Groups, Venues, Creations, Changes, Deletions
      <3>2. QED  BY <3>1, CreatesStep, UpdatesStep, DeletesStep
    <2>2. CASE CreateConcert(p) \/ CreateMember(p) \/ CreateRole(p) \/ CreateArtist(p)
               \/ CreateRule(p)
      <3>1. \E h \in DOMAIN Creations :
               /\ h \notin {"createConcertPosition", "createTicket"}
               /\ Creates(p, h, Creations[h])
        BY <2>2 DEF CreateConcert, CreateMember, CreateRole, CreateArtist, CreateRule, Creations
      <3>2. QED  BY <3>1, CreatesStep
    <2>3. CASE ChangeConcert(p) \/ ChangeMember(p) \/ ChangePosition(p) \/ ChangeRole(p)
               \/ ChangeArtist(p) \/ ChangeRule(p)
      <3>1. \E g \in DOMAIN Changes, d \in DOMAIN Deletions :
               Updates(p, g, Changes[g]) \/ Deletes(p, d, Deletions[d])
        BY <2>3 DEF ChangeConcert, ChangeMember, ChangePosition, ChangeRole, ChangeArtist,
           ChangeRule, Changes, Deletions
      <3>2. QED  BY <3>1, UpdatesStep, DeletesStep
    <2>4. CASE CreatePosition(p)
      BY <2>4, CodedStep DEF CreatePosition, Creations
    <2>5. CASE SendBadge(p) \/ ReadConcert(p) \/ ReadArtist(p) \/ SelectForSave(p)
      BY <2>5 DEF SendBadge, ReadConcert, ReadArtist, SelectForSave, TableStep, tableVars
    <2>6. CASE Save(p)
      BY <2>6 DEF TableStep
    <2>7. QED  BY <1>1, <2>1, <2>2, <2>3, <2>4, <2>5, <2>6 DEF CatalogueStep
  <1>2. ASSUME NEW p \in Procs, RegistrationStep(p)
        PROVE  TableStep(p)
    <2>1. CASE Register(p) \/ CreateCategory(p)
      <3>1. \E h \in DOMAIN Creations :
               /\ h \notin {"createConcertPosition", "createTicket"}
               /\ Creates(p, h, Creations[h])
        BY <2>1 DEF Register, CreateCategory, Creations
      <3>2. QED  BY <3>1, CreatesStep
    <2>2. CASE DeleteRegister(p) \/ DeleteTicket(p) \/ DeleteCategory(p)
      <3>1. \E d \in DOMAIN Deletions : Deletes(p, d, Deletions[d])
        BY <2>2 DEF DeleteRegister, DeleteTicket, DeleteCategory, Deletions
      <3>2. QED  BY <3>1, DeletesStep
    <2>3. CASE UpdateTicket(p)
      BY <2>3, UpdatesStep DEF UpdateTicket, Changes
    <2>4. CASE CreateTicket(p)
      BY <2>4, CodedStep DEF CreateTicket, Creations
    <2>5. CASE CheckRegistration(p) \/ OrderFails(p) \/ SendTickets(p)
      BY <2>5 DEF CheckRegistration, OrderFails, SendTickets, TableStep, tableVars
    <2>6. CASE PlaceOrder(p) \/ MarkUsed(p)
      BY <2>6 DEF TableStep
    <2>7. QED  BY <1>2, <2>1, <2>2, <2>3, <2>4, <2>5, <2>6 DEF RegistrationStep
  <1>3. CASE \E p \in Procs : (\E r \in offered.requests : Start(p, r)) \/ MediaAlone(p)
                              \/ StoreFault(p)
    BY <1>3 DEF Start, MediaAlone, StoreFault, tableVars
  <1>4. CASE ListingsAlone \/ ProcessEnds \/ Terminating
    BY <1>4 DEF ListingsAlone, ProcessEnds, Crash, Terminating, backofficeVars, catalogueVars,
       tableVars
  <1>5. QED
    BY <1>1, <1>2, <1>3, <1>4 DEF Next, Arrive, CatalogueAlone, RegistrationAlone

-----------------------------------------------------------------------------
(* Rows keep their types                                                     *)

LEMMA TargetKinds ==
    /\ \A h \in DOMAIN Creations : Creations[h] \in Kinds \ {"order", "orderLine", "orderTicket"}
    /\ \A h \in DOMAIN Changes :
          Changes[h] \in Kinds \ {"register", "category", "order", "orderLine", "orderTicket"}
    /\ \A h \in DOMAIN Deletions : Deletions[h] \in Kinds \ {"order", "orderLine", "orderTicket"}
  BY KindsAre DEF Creations, Changes, Deletions

LEMMA PutRow ==
    ASSUME TypeInv, NEW k \in Kinds, NEW i \in Ids, NEW row,
           rows' = [rows EXCEPT ![k][i] = row]
    PROVE  /\ rows' = [l \in Kinds |-> [j \in Ids |-> rows'[l][j]]]
           /\ \A l \in Kinds, j \in Ids :
                 rows'[l][j] = IF l = k /\ j = i THEN row ELSE rows[l][j]
  <1>1. rows = [l \in Kinds |-> [j \in Ids |-> rows[l][j]]]
    BY DEF TypeInv, TablesTyped
  <1>2. QED  BY <1>1

LEMMA PatchedRow ==
    ASSUME NEW k \in Kinds, NEW row, IsRow(k, row), row # Gone, NEW body, IsChange(k, body)
    PROVE  /\ IsRow(k, Patch(row, body)) /\ Patch(row, body) # Gone
           /\ \A c \in Entities[k].columns \ DOMAIN body : Patch(row, body)[c] = row[c]
  <1>1. /\ row = [c \in Entities[k].columns |-> row[c]]
        /\ \A c \in Entities[k].columns : row[c] \in ColumnType(c)
    BY DEF IsRow
  <1>2. DOMAIN row = Entities[k].columns
    BY <1>1
  <1>3. Patch(row, body)
           = [c \in Entities[k].columns |-> IF c \in DOMAIN body THEN body[c] ELSE row[c]]
    BY <1>2 DEF Patch
  <1>4. \A c \in Entities[k].columns : Patch(row, body)[c] \in ColumnType(c)
    BY <1>1, <1>3 DEF IsChange
  <1>5. Patch(row, body) = [c \in Entities[k].columns |-> Patch(row, body)[c]]
    BY <1>3
  <1>6. QED  BY <1>3, <1>4, <1>5, RowsAreThere

\* An order with its line, and a registration marked used.
LEMMA OrderRows ==
    ASSUME NEW r \in Ids, NEW o \in Ids, NEW category \in Ids
    PROVE  /\ IsRow("order", [register |-> r]) /\ [register |-> r] # Gone
           /\ IsRow("orderLine", [order |-> o, category |-> category])
           /\ [order |-> o, category |-> category] # Gone
  <1>1. "order" \in Kinds /\ "orderLine" \in Kinds
    BY KindsAre
  <1>2. /\ Entities["order"].columns = {"register"}
        /\ Entities["orderLine"].columns = {"order", "category"}
        /\ \A c \in {"register", "order", "category"} : ColumnType(c) = Ids \cup {Null}
    BY DEF Entities, OrderEntity, OrderLineEntity, ColumnType
  <1>3. ASSUME NEW x, x = [register |-> r]
        PROVE  IsRow("order", x) /\ x # Gone
    <2>1. x = [c \in {"register"} |-> x[c]] /\ x["register"] = r
      BY <1>3
    <2>2. QED  BY <1>1, <1>2, <2>1, RowsAreThere
  <1>4. ASSUME NEW x, x = [order |-> o, category |-> category]
        PROVE  IsRow("orderLine", x) /\ x # Gone
    <2>1. /\ x = [c \in {"order", "category"} |-> x[c]]
          /\ x["order"] = o /\ x["category"] = category
      BY <1>4
    <2>2. QED  BY <1>1, <1>2, <2>1, RowsAreThere
  <1>5. QED  BY <1>3, <1>4

LEMMA MarkedRow ==
    ASSUME NEW row, IsRow("register", row), row # Gone
    PROVE  /\ IsRow("register", [row EXCEPT !.used = TRUE]) /\ [row EXCEPT !.used = TRUE] # Gone
           /\ \A c \in {"concert", "rule", "name"} : [row EXCEPT !.used = TRUE][c] = row[c]
           /\ [row EXCEPT !.used = TRUE].used = TRUE
  <1>1. "register" \in Kinds
    BY KindsAre
  <1>2. /\ Entities["register"].columns = {"concert", "rule", "name", "used"}
        /\ ColumnType("used") = BOOLEAN
    BY DEF Entities, RegisterEntity, ColumnType
  <1>3. /\ row = [c \in {"concert", "rule", "name", "used"} |-> row[c]]
        /\ \A c \in {"concert", "rule", "name", "used"} : row[c] \in ColumnType(c)
    BY <1>2 DEF IsRow
  <1> DEFINE new == [row EXCEPT !.used = TRUE]
  <1>4. /\ new = [c \in {"concert", "rule", "name", "used"} |-> new[c]]
        /\ \A c \in {"concert", "rule", "name"} : new[c] = row[c]
        /\ new.used = TRUE
    BY <1>3
  <1>5. \A c \in {"concert", "rule", "name", "used"} : new[c] \in ColumnType(c)
    BY <1>2, <1>3, <1>4
  <1> HIDE DEF new
  <1>6. IsRow("register", new) /\ new # Gone
    BY <1>1, <1>2, <1>4, <1>5, RowsAreThere
  <1>7. QED  BY <1>4, <1>6 DEF new

\* What save() writes: rows of their tables, and none of those there is lost.
LEMMA SavedRows ==
    ASSUME TypeInv, NEW p \in Procs, pc[p] = "save"
    PROVE  /\ req[p].concert \in Ids
           /\ IsRow("concert", SavedConcert(p))
           /\ rows["concert"][req[p].concert] # Gone => SavedConcert(p) # Gone
           /\ \A i \in Ids : /\ IsRow("artist", SavedArtists(p)[i])
                             /\ rows["artist"][i] # Gone => SavedArtists(p)[i] # Gone
           /\ SavedArtists(p) = [i \in Ids |-> SavedArtists(p)[i]]
  <1> DEFINE row == rows["concert"][req[p].concert]
             new == Formatted("concert", entity[p].concert)
  <1>1. /\ req[p].concert \in Ids
        /\ "concert" \in Kinds /\ "artist" \in Kinds
    BY StatementsOf, KindsAre DEF Saving, IsRequest
  <1>2. /\ IsRow("concert", entity[p].concert) /\ entity[p].concert # Gone
        /\ diff[p].revive \subseteq InMemory(p) /\ diff[p].names \subseteq InMemory(p)
        /\ \A i \in Ids : IsRow("artist", entity[p].artists[i])
    BY DEF TypeInv, Remembered, Saving
  <1>3. /\ IsRow("concert", row)
        /\ \A i \in Ids : IsRow("artist", rows["artist"][i])
    BY <1>1 DEF TypeInv, TablesTyped
  <1>4. /\ IsRow("concert", new) /\ new # Gone
        /\ \A c \in Entities["concert"].columns : new[c] \in ColumnType(c)
    BY <1>1, <1>2, FormattedRow, RowsAreThere DEF IsRow
  <1> HIDE DEF new
  <1>5. ASSUME ~diff[p].insert, row # Gone
        PROVE  IsRow("concert", SavedConcert(p)) /\ SavedConcert(p) # Gone
    <2>1. /\ row = [c \in Entities["concert"].columns |-> row[c]]
          /\ \A c \in Entities["concert"].columns : row[c] \in ColumnType(c)
      BY <1>3, <1>5 DEF IsRow
    <2>2. DOMAIN row = Entities["concert"].columns
      BY <2>1
    <2>3. SavedConcert(p)
             = [c \in Entities["concert"].columns |->
                   IF c \in diff[p].columns THEN new[c] ELSE row[c]]
      BY <1>5, <2>2 DEF SavedConcert, new
    <2>4. /\ SavedConcert(p) = [c \in Entities["concert"].columns |-> SavedConcert(p)[c]]
          /\ \A c \in Entities["concert"].columns : SavedConcert(p)[c] \in ColumnType(c)
      BY <2>1, <2>3, <1>4
    <2>5. QED  BY <1>1, <2>4, RowsAreThere
  <1>6. /\ IsRow("concert", SavedConcert(p))
        /\ row # Gone => SavedConcert(p) # Gone
    <2>1. CASE diff[p].insert
      BY <2>1, <1>4 DEF SavedConcert, new
    <2>2. CASE ~diff[p].insert /\ row = Gone
      BY <2>2 DEF SavedConcert, IsRow
    <2>3. QED  BY <1>5, <2>1, <2>2
  <1>7. ASSUME NEW i \in Ids
        PROVE  /\ IsRow("artist", SavedArtists(p)[i])
               /\ rows["artist"][i] # Gone => SavedArtists(p)[i] # Gone
    <2>1. CASE i \in diff[p].revive \/ (i \in diff[p].names /\ rows["artist"][i] # Gone)
      <3>1. IsRow("artist", entity[p].artists[i]) /\ entity[p].artists[i] # Gone
        BY <2>1, <1>2 DEF InMemory
      <3>2. /\ IsRow("artist", Formatted("artist", entity[p].artists[i]))
            /\ Formatted("artist", entity[p].artists[i]) # Gone
        BY <1>1, <3>1, FormattedRow, RowsAreThere DEF IsRow
      <3>3. SavedArtists(p)[i] = Formatted("artist", entity[p].artists[i])
        BY <2>1 DEF SavedArtists
      <3>4. QED  BY <3>2, <3>3
    <2>2. CASE ~(i \in diff[p].revive \/ (i \in diff[p].names /\ rows["artist"][i] # Gone))
      BY <2>2, <1>3 DEF SavedArtists
    <2>3. QED  BY <2>1, <2>2
  <1>8. SavedArtists(p) = [i \in Ids |-> SavedArtists(p)[i]]
    BY DEF SavedArtists
  <1>9. QED  BY <1>1, <1>6, <1>7, <1>8

LEMMA RowsKeepTypes ==
    ASSUME TypeInv, NEW p \in Procs, TableStep(p)
    PROVE  /\ rows' = [k \in Kinds |-> [i \in Ids |-> rows'[k][i]]]
           /\ \A k \in Kinds, i \in Ids : IsRow(k, rows'[k][i])
           /\ lineup' \in [Ids -> SUBSET Ids]
           /\ born' \in [Kinds -> SUBSET Ids]
  <1> DEFINE Typed == /\ rows' = [k \in Kinds |-> [i \in Ids |-> rows'[k][i]]]
                      /\ \A k \in Kinds, i \in Ids : IsRow(k, rows'[k][i])
             Others == lineup' \in [Ids -> SUBSET Ids] /\ born' \in [Kinds -> SUBSET Ids]
  <1>1. /\ rows = [k \in Kinds |-> [i \in Ids |-> rows[k][i]]]
        /\ \A k \in Kinds, i \in Ids : IsRow(k, rows[k][i])
        /\ lineup \in [Ids -> SUBSET Ids] /\ born \in [Kinds -> SUBSET Ids]
    BY DEF TypeInv, TablesTyped
  <1>2. ASSUME NEW k \in Kinds, NEW i \in Ids, NEW row, IsRow(k, row),
               rows' = rows \/ rows' = [rows EXCEPT ![k][i] = row]
        PROVE  Typed
    BY <1>1, <1>2, PutRow
  <1>3. CASE UNCHANGED <<rows, lineup, born>>
    BY <1>1, <1>3
  <1>4. ASSUME NEW h \in DOMAIN Creations, NEW row, NewRow(h, row), InsertStep(Creations[h], row)
        PROVE  Typed /\ Others
    <2>1. Creations[h] \in Kinds /\ NextId(Creations[h]) \in Ids /\ IsRow(Creations[h], row)
      BY <1>4, TargetKinds DEF InsertStep, NewRow
    <2>2. Typed  BY <1>2, <1>4, <2>1 DEF InsertStep
    <2>3. Others  BY <1>1, <1>4, <2>1 DEF InsertStep
    <2>4. QED  BY <2>2, <2>3
  <1>5. ASSUME NEW h \in DOMAIN Changes, req[p].id \in Ids, IsChange(Changes[h], req[p].body),
               UpdateStep(Changes[h], req[p].id, req[p].body)
        PROVE  Typed /\ Others
    <2>1. Changes[h] \in Kinds
      BY TargetKinds
    <2>2. rows[Changes[h]][req[p].id] # Gone
             => IsRow(Changes[h], Patch(rows[Changes[h]][req[p].id], req[p].body))
      BY <1>1, <1>5, <2>1, PatchedRow
    <2>3. Typed
      <3>1. CASE rows' = rows
        BY <1>1, <3>1
      <3>2. CASE rows' # rows
        <4> DEFINE row == Patch(rows[Changes[h]][req[p].id], req[p].body)
        <4>1. rows[Changes[h]][req[p].id] # Gone
              /\ rows' = [rows EXCEPT ![Changes[h]][req[p].id] = row]
          BY <1>5, <3>2 DEF UpdateStep
        <4>2. IsRow(Changes[h], row)
          BY <2>2, <4>1
        <4> HIDE DEF row
        <4>3. req[p].id \in Ids
          BY <1>5
        <4>4. QED  BY <1>2, <2>1, <4>1, <4>2, <4>3
      <3>3. QED  BY <3>1, <3>2
    <2>4. QED  BY <1>1, <1>5, <2>3 DEF UpdateStep
  <1>6. ASSUME NEW h \in DOMAIN Deletions, req[p].id \in Ids, DeleteStep(Deletions[h], req[p].id)
        PROVE  Typed /\ Others
    <2>1. Deletions[h] \in Kinds /\ IsRow(Deletions[h], Gone)
      BY TargetKinds DEF IsRow
    <2>2. Typed  BY <1>2, <1>6, <2>1 DEF DeleteStep
    <2>3. QED  BY <1>1, <1>6, <2>2 DEF DeleteStep
  <1>7. CASE PlaceOrder(p)
    <2>1. req[p].id \in Ids /\ req[p].category \in Ids
      BY <1>7, StatementsOf DEF PlaceOrder, Ordering, IsRequest, Creations
    <2>2. NextId("order") \in Ids /\ NextId("orderLine") \in Ids
      BY <1>7, NextIdIsNew DEF PlaceOrder
    <2>3. /\ IsRow("order", [register |-> req[p].id])
          /\ IsRow("orderLine", [order |-> NextId("order"), category |-> req[p].category])
      BY <2>1, <2>2, OrderRows
    <2>4. rows' = [rows EXCEPT !["order"][NextId("order")] = [register |-> req[p].id],
                               !["orderLine"][NextId("orderLine")] =
                                    [order |-> NextId("order"), category |-> req[p].category]]
      BY <1>7 DEF PlaceOrder
    <2>5. "order" \in Kinds /\ "orderLine" \in Kinds
      BY KindsAre
    <2>6. /\ rows' = [k \in Kinds |-> [i \in Ids |-> rows'[k][i]]]
          /\ \A k \in Kinds, i \in Ids : rows'[k][i] =
                IF k = "order" /\ i = NextId("order") THEN [register |-> req[p].id]
                ELSE IF k = "orderLine" /\ i = NextId("orderLine")
                   THEN [order |-> NextId("order"), category |-> req[p].category]
                ELSE rows[k][i]
      BY <1>1, <2>2, <2>4, <2>5
    <2>7. Typed  BY <1>1, <2>3, <2>6
    <2>8. Others  BY <1>1, <1>7, <2>2, <2>5 DEF PlaceOrder
    <2>9. QED  BY <2>7, <2>8
  <1>8. CASE MarkUsed(p)
    <2>1. req[p].id \in Ids /\ "register" \in Kinds
      BY <1>8, StatementsOf, KindsAre DEF MarkUsed, Ordering, IsRequest, Creations
    <2>2. Registration(p) # Gone => IsRow("register", [Registration(p) EXCEPT !.used = TRUE])
      BY <1>1, <2>1, MarkedRow DEF Registration
    <2>3. \/ rows' = rows
          \/ /\ Registration(p) # Gone
             /\ rows' = [rows EXCEPT !["register"][req[p].id] =
                            [Registration(p) EXCEPT !.used = TRUE]]
      BY <1>1, <1>8, <2>1 DEF MarkUsed, Registration
    <2>4. Typed
      <3>1. CASE rows' = rows
        BY <1>1, <3>1
      <3>2. CASE rows' # rows
        BY <1>2, <2>1, <2>2, <2>3, <3>2
      <3>3. QED  BY <3>1, <3>2
    <2>5. QED  BY <1>1, <1>8, <2>4 DEF MarkUsed
  <1>9. CASE Save(p)
    <2>1. /\ req[p].concert \in Ids /\ IsRow("concert", SavedConcert(p))
          /\ \A i \in Ids : IsRow("artist", SavedArtists(p)[i])
          /\ SavedArtists(p) = [i \in Ids |-> SavedArtists(p)[i]]
          /\ diff[p].add \subseteq Ids
      BY <1>9, SavedRows DEF Save, TypeInv, Remembered, InMemory
    <2>2. CASE SaveBreaks(p)
      BY <1>1, <1>9, <2>2 DEF Save
    <2>3. CASE ~SaveBreaks(p)
      <3>1. "concert" \in Kinds /\ "artist" \in Kinds
        BY KindsAre
      <3>2. /\ rows' = [rows EXCEPT !["concert"][req[p].concert] = SavedConcert(p),
                                    !["artist"] = SavedArtists(p)]
            /\ lineup' = [lineup EXCEPT ![req[p].concert] =
                             (lineup[req[p].concert] \ diff[p].remove) \cup diff[p].add]
            /\ UNCHANGED born
        BY <1>9, <2>3 DEF Save
      <3>3. /\ rows' = [k \in Kinds |-> [i \in Ids |-> rows'[k][i]]]
            /\ \A k \in Kinds, i \in Ids : rows'[k][i] =
                  IF k = "concert" /\ i = req[p].concert THEN SavedConcert(p)
                  ELSE IF k = "artist" THEN SavedArtists(p)[i] ELSE rows[k][i]
        BY <1>1, <2>1, <3>1, <3>2
      <3>4. Typed  BY <1>1, <2>1, <3>3
      <3>5. lineup[req[p].concert] \in SUBSET Ids
        BY <1>1, <2>1
      <3>6. (lineup[req[p].concert] \ diff[p].remove) \cup diff[p].add \in SUBSET Ids
        BY <2>1, <3>5
      <3>7. Others  BY <1>1, <3>2, <3>6
      <3>8. QED  BY <3>4, <3>7
    <2>4. QED  BY <2>2, <2>3
  <1>10. QED
    BY <1>3, <1>4, <1>5, <1>6, <1>7, <1>8, <1>9 DEF TableStep

-----------------------------------------------------------------------------
(* References                                                                *)

LEMMA RefsAre ==
    \A k \in Kinds : \A c \in DOMAIN Entities[k].refs :
        /\ c \in Entities[k].columns /\ Entities[k].refs[c] \in Kinds
        /\ ColumnType(c) = Ids \cup {Null}
  BY KindsAre DEF Entities, VenueEntity, ConcertGroupEntity, ArtistEntity, GenreEntity,
     MemberEntity, RoleEntity, ConcertEntity, PositionEntity, RuleEntity, RegisterEntity,
     CategoryEntity, TicketEntity, OrderEntity, OrderLineEntity, OrderTicketEntity, NoRefs,
     ColumnType

LEMMA RefsAreIds ==
    ASSUME NEW k \in Kinds, NEW row, IsRow(k, row), row # Gone,
           NEW c \in DOMAIN Entities[k].refs
    PROVE  row[c] \in Ids \cup {Null} /\ Entities[k].refs[c] \in Kinds
  <1>1. \A d \in Entities[k].columns : row[d] \in ColumnType(d)
    BY DEF IsRow
  <1>2. QED  BY <1>1, RefsAre

\* References hold as long as no row goes, and each row that is written refers
\* to rows that are there.
LEMMA ReferencesGrow ==
    ASSUME TypeInv, ReferencesHold,
           \A k \in Kinds, i \in Ids : rows[k][i] # Gone => rows'[k][i] # Gone,
           \A k \in Kinds, i \in Ids :
               rows'[k][i] # Gone =>
                   rows'[k][i] = rows[k][i] \/ RefsFoundIn(rows', k, rows'[k][i]),
           \A c \in Ids :
               \/ lineup'[c] = lineup[c]
               \/ lineup'[c] # {} =>
                     rows'["concert"][c] # Gone /\ \A i \in lineup'[c] : rows'["artist"][i] # Gone
    PROVE  ReferencesHold'
  <1>1. ASSUME NEW k \in Kinds, NEW i \in Ids, rows'[k][i] # Gone
        PROVE  RefsFoundIn(rows', k, rows'[k][i])
    <2>1. CASE rows'[k][i] = rows[k][i]
      <3>1. IsRow(k, rows[k][i]) /\ RefsFoundIn(rows, k, rows[k][i])
        BY <1>1, <2>1 DEF TypeInv, TablesTyped, ReferencesHold, ReferencesHoldIn
      <3>2. \A c \in DOMAIN Entities[k].refs :
               rows[k][i][c] \in Ids \cup {Null} /\ Entities[k].refs[c] \in Kinds
        BY <1>1, <2>1, <3>1, RefsAreIds
      <3>3. QED  BY <2>1, <3>1, <3>2 DEF RefsFoundIn, FoundIn
    <2>2. QED  BY <1>1, <2>1
  <1>2. ASSUME NEW c \in Ids, lineup'[c] # {}
        PROVE  rows'["concert"][c] # Gone /\ \A i \in lineup'[c] : rows'["artist"][i] # Gone
    <2>1. CASE lineup'[c] = lineup[c]
      <3>1. lineup[c] \subseteq Ids /\ "concert" \in Kinds /\ "artist" \in Kinds
        BY KindsAre DEF TypeInv, TablesTyped
      <3>2. rows["concert"][c] # Gone /\ \A i \in lineup[c] : rows["artist"][i] # Gone
        BY <1>2, <2>1 DEF ReferencesHold, ReferencesHoldIn
      <3>3. QED  BY <2>1, <3>1, <3>2
    <2>2. QED  BY <1>2, <2>1
  <1>3. QED  BY <1>1, <1>2 DEF ReferencesHold, ReferencesHoldIn

\* A row that no row refers to may go, and a concert or an artist takes its
\* rows of concert_artist with it.
LEMMA ReferencesAfterDelete ==
    ASSUME TypeInv, ReferencesHold, NEW k \in Kinds, NEW i \in Ids, DeleteStep(k, i)
    PROVE  ReferencesHold'
  <1>1. CASE Held(k, i)
    <2>1. rows' = rows /\ lineup' = lineup
      BY <1>1 DEF DeleteStep
    <2>2. QED  BY <2>1 DEF ReferencesHold
  <1>2. CASE ~Held(k, i)
    <2>1. \A l \in Kinds, j \in Ids :
             rows'[l][j] = IF l = k /\ j = i THEN Gone ELSE rows[l][j]
      <3>1. rows' = [rows EXCEPT ![k][i] = Gone]
        BY <1>2 DEF DeleteStep
      <3>2. rows = [l \in Kinds |-> [j \in Ids |-> rows[l][j]]]
        BY DEF TypeInv, TablesTyped
      <3>3. QED  BY <3>1, <3>2
    <2>2. ASSUME NEW l \in Kinds, NEW j \in Ids, rows'[l][j] # Gone
          PROVE  RefsFoundIn(rows', l, rows'[l][j])
      <3>1. rows'[l][j] = rows[l][j]
        BY <2>1, <2>2
      <3>2. IsRow(l, rows[l][j]) /\ RefsFoundIn(rows, l, rows[l][j])
        BY <2>2, <3>1 DEF TypeInv, TablesTyped, ReferencesHold, ReferencesHoldIn
      <3>3. \A c \in DOMAIN Entities[l].refs :
               rows[l][j][c] \in Ids \cup {Null} /\ Entities[l].refs[c] \in Kinds
        BY <2>2, <3>1, <3>2, RefsAreIds
      <3>4. \A c \in DOMAIN Entities[l].refs : ~(Entities[l].refs[c] = k /\ rows[l][j][c] = i)
        BY <1>2, <2>2, <3>1 DEF Held
      <3>5. QED  BY <2>1, <3>1, <3>2, <3>3, <3>4 DEF RefsFoundIn, FoundIn
    <2>3. ASSUME NEW c \in Ids, lineup'[c] # {}
          PROVE  rows'["concert"][c] # Gone /\ \A x \in lineup'[c] : rows'["artist"][x] # Gone
      <3>1. lineup \in [Ids -> SUBSET Ids] /\ "concert" \in Kinds /\ "artist" \in Kinds
        BY KindsAre DEF TypeInv, TablesTyped
      <3>2. /\ lineup'[c] \subseteq lineup[c]
            /\ k = "concert" => c # i
            /\ k = "artist" => i \notin lineup'[c]
        BY <1>2, <2>3, <3>1 DEF DeleteStep
      <3>3. rows["concert"][c] # Gone /\ \A x \in lineup[c] : rows["artist"][x] # Gone
        BY <2>3, <3>2 DEF ReferencesHold, ReferencesHoldIn
      <3>4. lineup'[c] \subseteq Ids
        BY <3>1, <3>2
      <3>5. QED  BY <2>1, <3>1, <3>2, <3>3, <3>4
    <2>4. QED  BY <2>2, <2>3 DEF ReferencesHold, ReferencesHoldIn
  <1>3. QED  BY <1>1, <1>2

LEMMA ReferencesAfterPut ==
    ASSUME TypeInv, ReferencesHold, NEW k \in Kinds, NEW i \in Ids, NEW row,
           IsRow(k, row), row # Gone, RefsFound(k, row),
           rows' = [rows EXCEPT ![k][i] = row], lineup' = lineup
    PROVE  ReferencesHold'
  <1>1. \A l \in Kinds, j \in Ids :
           rows'[l][j] = IF l = k /\ j = i THEN row ELSE rows[l][j]
    <2>1. rows = [l \in Kinds |-> [j \in Ids |-> rows[l][j]]]
      BY DEF TypeInv, TablesTyped
    <2>2. QED  BY <2>1
  <1>2. \A l \in Kinds, j \in Ids : rows[l][j] # Gone => rows'[l][j] # Gone
    BY <1>1
  <1>3. RefsFoundIn(rows', k, row)
    <2>1. \A c \in DOMAIN Entities[k].refs :
             row[c] \in Ids \cup {Null} /\ Entities[k].refs[c] \in Kinds
      BY RefsAreIds
    <2>2. QED  BY <1>2, <2>1 DEF RefsFound, RefsFoundIn, FoundIn
  <1>4. \A l \in Kinds, j \in Ids :
           rows'[l][j] # Gone => rows'[l][j] = rows[l][j] \/ RefsFoundIn(rows', l, rows'[l][j])
    BY <1>1, <1>3
  <1>5. QED  BY <1>2, <1>4, ReferencesGrow

\* The foreign keys of order, and those a registration keeps when it is marked.
LEMMA OrderRefs ==
    /\ Entities["order"].refs = [register |-> "register"]
    /\ Entities["orderLine"].refs = [order |-> "order", category |-> "category"]
    /\ Entities["register"].refs = [concert |-> "concert", rule |-> "rule"]
    /\ Entities["artist"].refs = NoRefs
  BY DEF Entities, OrderEntity, OrderLineEntity, RegisterEntity, ArtistEntity

LEMMA ReferencesAfterOrder ==
    ASSUME TypeInv, ReferencesHold, NEW p \in Procs, PlaceOrder(p)
    PROVE  ReferencesHold'
  <1> DEFINE o == NextId("order")
             l == NextId("orderLine")
             order == [register |-> req[p].id]
             line == [order |-> o, category |-> req[p].category]
  <1>1. req[p].id \in Ids /\ req[p].category \in Ids
    BY StatementsOf DEF PlaceOrder, Ordering, IsRequest, Creations
  <1>2. o \in Ids /\ l \in Ids
    BY NextIdIsNew DEF PlaceOrder
  <1>3. /\ rows' = [rows EXCEPT !["order"][o] = order, !["orderLine"][l] = line]
        /\ lineup' = lineup
        /\ Found("category", req[p].category) /\ Allowed("order", o, order)
    BY DEF PlaceOrder
  <1>4. "order" \in Kinds /\ "orderLine" \in Kinds /\ "category" \in Kinds /\ "register" \in Kinds
    BY KindsAre
  <1>5. order # Gone /\ line # Gone
    BY <1>1, <1>2, OrderRows
  <1> HIDE DEF o, l
  <1>6. \A k \in Kinds, i \in Ids : rows'[k][i] =
           IF k = "order" /\ i = o THEN order
           ELSE IF k = "orderLine" /\ i = l THEN line ELSE rows[k][i]
    <2>1. rows = [k \in Kinds |-> [j \in Ids |-> rows[k][j]]]
      BY DEF TypeInv, TablesTyped
    <2>2. QED  BY <1>2, <1>3, <1>4, <2>1
  <1>7. \A k \in Kinds, i \in Ids : rows[k][i] # Gone => rows'[k][i] # Gone
    BY <1>5, <1>6
  <1>8. RefsFoundIn(rows', "order", order)
    <2>1. Found("register", req[p].id)
      BY <1>1, <1>3, OrderRefs, BoundsAssumption, NothingAssumption
         DEF Allowed, RefsFound, RefsFoundIn, Found, FoundIn
    <2>2. QED  BY <1>1, <1>4, <1>7, <2>1, OrderRefs DEF RefsFoundIn, Found, FoundIn
  <1>9. RefsFoundIn(rows', "orderLine", line)
    <2>1. FoundIn(rows', "order", o)
      BY <1>2, <1>4, <1>5, <1>6, BoundsAssumption, NothingAssumption DEF FoundIn
    <2>2. FoundIn(rows', "category", req[p].category)
      BY <1>1, <1>3, <1>4, <1>7 DEF Found, FoundIn
    <2>3. QED  BY <2>1, <2>2, OrderRefs DEF RefsFoundIn
  <1>10. \A k \in Kinds, i \in Ids :
            rows'[k][i] # Gone => rows'[k][i] = rows[k][i] \/ RefsFoundIn(rows', k, rows'[k][i])
    BY <1>6, <1>8, <1>9
  <1>11. QED  BY <1>3, <1>7, <1>10, ReferencesGrow

LEMMA ReferencesAfterMark ==
    ASSUME TypeInv, ReferencesHold, NEW p \in Procs, MarkUsed(p)
    PROVE  ReferencesHold'
  <1>1. req[p].id \in Ids /\ "register" \in Kinds
    BY StatementsOf, KindsAre DEF MarkUsed, Ordering, IsRequest, Creations
  <1>2. lineup' = lineup
    BY DEF MarkUsed
  <1>3. CASE Registration(p) = Gone
    BY <1>2, <1>3 DEF MarkUsed, ReferencesHold
  <1>4. CASE Registration(p) # Gone
    <2> DEFINE new == [Registration(p) EXCEPT !.used = TRUE]
    <2>1. IsRow("register", Registration(p)) /\ RefsFound("register", Registration(p))
      BY <1>1, <1>4 DEF Registration, TypeInv, TablesTyped, ReferencesHold, ReferencesHoldIn,
         RefsFound
    <2>2. /\ IsRow("register", new) /\ new # Gone
          /\ \A c \in {"concert", "rule", "name"} : new[c] = Registration(p)[c]
      BY <1>4, <2>1, MarkedRow
    <2> HIDE DEF new
    <2>3. RefsFound("register", new)
      BY <2>1, <2>2, OrderRefs DEF RefsFound, RefsFoundIn
    <2>4. rows' = [rows EXCEPT !["register"][req[p].id] = new]
      <3>1. rows = [k \in Kinds |-> [j \in Ids |-> rows[k][j]]]
        BY DEF TypeInv, TablesTyped
      <3>2. QED  BY <1>1, <1>4, <3>1 DEF MarkUsed, Registration, new
    <2>5. QED  BY <1>1, <1>2, <2>2, <2>3, <2>4, ReferencesAfterPut
  <1>5. QED  BY <1>3, <1>4

\* save() brings rows back with references to what is there, in one
\* transaction.
LEMMA ReferencesAfterSave ==
    ASSUME TypeInv, ReferencesHold, NEW p \in Procs, Save(p)
    PROVE  ReferencesHold'
  <1>1. CASE SaveBreaks(p)
    <2>1. rows' = rows /\ lineup' = lineup
      BY <1>1 DEF Save
    <2>2. QED  BY <2>1 DEF ReferencesHold
  <1>2. CASE ~SaveBreaks(p)
    <2> DEFINE c == req[p].concert
    <2>1. /\ rows' = [rows EXCEPT !["concert"][c] = SavedConcert(p), !["artist"] = SavedArtists(p)]
          /\ lineup' = [lineup EXCEPT ![c] = (lineup[c] \ diff[p].remove) \cup diff[p].add]
      BY <1>2 DEF Save
    <2>2. /\ c \in Ids /\ IsRow("concert", SavedConcert(p))
          /\ rows["concert"][c] # Gone => SavedConcert(p) # Gone
          /\ \A i \in Ids : rows["artist"][i] # Gone => SavedArtists(p)[i] # Gone
          /\ SavedArtists(p) = [i \in Ids |-> SavedArtists(p)[i]]
          /\ diff[p].add \subseteq Ids
      BY SavedRows DEF Save, TypeInv, Remembered, InMemory
    <2>3. /\ SavedConcert(p) # Gone => RefsFound("concert", SavedConcert(p))
          /\ diff[p].add # {} => SavedConcert(p) # Gone
          /\ \A i \in diff[p].add : SavedArtists(p)[i] # Gone
      BY <1>2 DEF SaveBreaks
    <2>4. "concert" \in Kinds /\ "artist" \in Kinds
      BY KindsAre
    <2> HIDE DEF c
    <2>5. \A k \in Kinds, i \in Ids : rows'[k][i] =
             IF k = "concert" /\ i = c THEN SavedConcert(p)
             ELSE IF k = "artist" THEN SavedArtists(p)[i] ELSE rows[k][i]
      <3>1. rows = [k \in Kinds |-> [j \in Ids |-> rows[k][j]]]
        BY DEF TypeInv, TablesTyped
      <3>2. QED  BY <2>1, <2>2, <2>4, <3>1
    <2>6. \A k \in Kinds, i \in Ids : rows[k][i] # Gone => rows'[k][i] # Gone
      BY <2>2, <2>5
    <2>7. SavedConcert(p) # Gone => RefsFoundIn(rows', "concert", SavedConcert(p))
      <3>1. \A r \in DOMAIN Entities["concert"].refs :
               SavedConcert(p) # Gone => /\ SavedConcert(p)[r] \in Ids \cup {Null}
                                         /\ Entities["concert"].refs[r] \in Kinds
        BY <2>2, <2>4, RefsAreIds
      <3>2. QED  BY <2>3, <2>6, <3>1 DEF RefsFound, RefsFoundIn, FoundIn
    <2>8. \A i \in Ids : RefsFoundIn(rows', "artist", rows'["artist"][i])
      BY OrderRefs DEF RefsFoundIn, NoRefs
    <2>9. \A k \in Kinds, i \in Ids :
             rows'[k][i] # Gone =>
                 rows'[k][i] = rows[k][i] \/ RefsFoundIn(rows', k, rows'[k][i])
      BY <2>5, <2>7, <2>8
    <2>10. ASSUME NEW d \in Ids, lineup'[d] # lineup[d], lineup'[d] # {}
           PROVE  /\ rows'["concert"][d] # Gone
                  /\ \A i \in lineup'[d] : rows'["artist"][i] # Gone
      <3>1. lineup \in [Ids -> SUBSET Ids]
        BY DEF TypeInv, TablesTyped
      <3>2. d = c /\ lineup'[d] = (lineup[c] \ diff[p].remove) \cup diff[p].add
        BY <2>1, <2>10, <3>1
      <3>3. lineup[c] # {} =>
               rows["concert"][c] # Gone /\ \A i \in lineup[c] : rows["artist"][i] # Gone
        BY <2>2 DEF ReferencesHold, ReferencesHoldIn
      <3>4. rows'["concert"][c] # Gone
        BY <2>2, <2>3, <2>4, <2>5, <2>6, <2>10, <3>2, <3>3
      <3>5. ASSUME NEW i \in lineup'[d]
            PROVE  rows'["artist"][i] # Gone
        <4>1. CASE i \in diff[p].add
          BY <2>2, <2>3, <2>4, <2>5, <4>1
        <4>2. CASE i \in lineup[c]
          BY <2>2, <2>4, <2>6, <3>1, <3>3, <4>2
        <4>3. QED  BY <3>2, <3>5, <4>1, <4>2
      <3>6. QED  BY <3>2, <3>4, <3>5
    <2>11. QED  BY <2>6, <2>9, <2>10, ReferencesGrow
  <1>3. QED  BY <1>1, <1>2

LEMMA ReferencesStay ==
    ASSUME TypeInv, ReferencesHold, NEW p \in Procs, TableStep(p)
    PROVE  ReferencesHold'
  <1>1. CASE UNCHANGED <<rows, lineup, born>>
    BY <1>1 DEF ReferencesHold
  <1>2. ASSUME NEW h \in DOMAIN Creations, NEW row, NewRow(h, row), InsertStep(Creations[h], row)
        PROVE  ReferencesHold'
    <2>1. /\ Creations[h] \in Kinds /\ NextId(Creations[h]) \in Ids
          /\ IsRow(Creations[h], row) /\ row # Gone
      BY <1>2, TargetKinds DEF InsertStep, NewRow
    <2>2. CASE rows' = rows
      BY <1>2, <2>2 DEF InsertStep, ReferencesHold
    <2>3. CASE rows' # rows
      <3>1. /\ RefsFound(Creations[h], row) /\ lineup' = lineup
            /\ rows' = [rows EXCEPT ![Creations[h]][NextId(Creations[h])] = row]
        BY <1>2, <2>3 DEF InsertStep, Allowed
      <3>2. QED  BY <2>1, <3>1, ReferencesAfterPut
    <2>4. QED  BY <2>2, <2>3
  <1>3. ASSUME NEW h \in DOMAIN Changes, req[p].id \in Ids, IsChange(Changes[h], req[p].body),
               UpdateStep(Changes[h], req[p].id, req[p].body)
        PROVE  ReferencesHold'
    <2> DEFINE i == req[p].id
               new == Patch(rows[Changes[h]][i], req[p].body)
    <2>1. CASE rows' = rows
      BY <1>3, <2>1 DEF UpdateStep, ReferencesHold
    <2>2. CASE rows' # rows
      <3>1. /\ rows[Changes[h]][i] # Gone /\ RefsFound(Changes[h], new)
            /\ rows' = [rows EXCEPT ![Changes[h]][i] = new] /\ lineup' = lineup
        BY <1>3, <2>2 DEF UpdateStep, Allowed
      <3>2. Changes[h] \in Kinds /\ IsRow(Changes[h], rows[Changes[h]][i])
        BY <1>3, TargetKinds DEF TypeInv, TablesTyped
      <3>3. IsRow(Changes[h], new) /\ new # Gone
        BY <1>3, <3>1, <3>2, PatchedRow
      <3> HIDE DEF new
      <3>4. QED  BY <1>3, <3>1, <3>2, <3>3, ReferencesAfterPut
    <2>3. QED  BY <2>1, <2>2
  <1>4. ASSUME NEW h \in DOMAIN Deletions, req[p].id \in Ids, DeleteStep(Deletions[h], req[p].id)
        PROVE  ReferencesHold'
    BY <1>4, TargetKinds, ReferencesAfterDelete
  <1>5. QED
    BY <1>1, <1>2, <1>3, <1>4, ReferencesAfterOrder, ReferencesAfterMark, ReferencesAfterSave
       DEF TableStep

-----------------------------------------------------------------------------
(* Requests in progress: a step moves one of them                            *)

Locally(p) ==
    /\ pc' = [pc EXCEPT ![p] = pc'[p]] /\ req' = [req EXCEPT ![p] = req'[p]]
    /\ entity' = [entity EXCEPT ![p] = entity'[p]] /\ diff' = [diff EXCEPT ![p] = diff'[p]]
    /\ key' = [key EXCEPT ![p] = key'[p]] /\ at' = [at EXCEPT ![p] = at'[p]]

Quits(p) ==
    /\ pc'[p] = "idle" /\ req'[p] = None /\ entity'[p] = NoEntity /\ diff'[p] = NoDiff
    /\ key'[p] = Null /\ at'[p] = 1

RequestsKeep(p) == Served(p)' /\ Remembered(p)' /\ Looping(p)'

LEMMA FunctionsOfProcs ==
    ASSUME TypeInv
    PROVE  /\ pc = [p \in Procs |-> pc[p]] /\ req = [p \in Procs |-> req[p]]
           /\ entity = [p \in Procs |-> entity[p]] /\ diff = [p \in Procs |-> diff[p]]
           /\ key = [p \in Procs |-> key[p]] /\ at = [p \in Procs |-> at[p]]
  BY DEF TypeInv, PicturesTyped, MediaTypeOK

LEMMA OthersKeep ==
    ASSUME TypeInv, NEW p \in Procs, Locally(p), NEW q \in Procs \ {p}
    PROVE  RequestsKeep(q)
  <1>1. /\ pc'[q] = pc[q] /\ req'[q] = req[q] /\ entity'[q] = entity[q]
        /\ diff'[q] = diff[q] /\ key'[q] = key[q] /\ at'[q] = at[q]
    BY FunctionsOfProcs DEF Locally
  <1>2. Served(q) /\ Remembered(q) /\ Looping(q)
    BY DEF TypeInv
  <1>3. Served(q)'  BY <1>1, <1>2 DEF Served
  <1>4. Remembered(q)'  BY <1>1, <1>2 DEF Remembered, InMemory
  <1>5. Looping(q)'  BY <1>1, <1>2 DEF Looping
  <1>6. QED  BY <1>3, <1>4, <1>5 DEF RequestsKeep

LEMMA QuittersKeep ==
    ASSUME NEW p \in Procs, Quits(p)
    PROVE  RequestsKeep(p)
  <1>1. Served(p)'  BY DEF Served, Quits
  <1>2. Remembered(p)'  BY DEF Remembered, Quits, NoEntity, Saving
  <1>3. Looping(p)'  BY DEF Looping, Quits
  <1>4. QED  BY <1>1, <1>2, <1>3 DEF RequestsKeep

\* The statements outside the loops over pictures.
Quiet == (Handlers \ (DOMAIN Uploads \cup DOMAIN Removals)) \cup Saving \cup Ordering

LEMMA QuietLoops ==
    ASSUME TypeInv, NEW p \in Procs, pc[p] \in Quiet
    PROVE  /\ pc[p] # "idle" /\ key[p] = Null /\ at[p] = 1
           /\ req[p].handler \notin DOMAIN Uploads \cup DOMAIN Removals
  <1>1. /\ pc[p] # "idle"
        /\ pc[p] \notin {"put", "insertFile", "associate", "deleteObject", "deleteFile"}
    BY DEF Quiet, Handlers, Creations, Changes, Deletions, Uploads, Removals, Lineups, Mails,
       Saving, Ordering
  <1>2. req[p].handler \notin DOMAIN Uploads \cup DOMAIN Removals
    <2>1. CASE pc[p] \in Handlers
      <3>1. req[p].handler = pc[p]
        BY <2>1, RequestOf
      <3>2. pc[p] \notin DOMAIN Uploads \cup DOMAIN Removals
        BY <2>1 DEF Quiet, Handlers, Creations, Changes, Deletions, Uploads, Removals, Lineups,
           Mails, Saving, Ordering
      <3>3. QED  BY <3>1, <3>2
    <2>2. CASE pc[p] \in Saving \cup Ordering
      BY <1>1, <2>2, StatementsOf DEF Lineups, Uploads, Removals
    <2>3. QED  BY <2>1, <2>2 DEF Quiet
  <1>3. Looping(p) /\ "deleteConcertImages" \in DOMAIN Removals
    BY DEF TypeInv, Removals
  <1>4. QED  BY <1>1, <1>2, <1>3 DEF Looping

LEMMA AnswerStep ==
    ASSUME TypeInv, NEW p \in Procs, pc[p] \in Quiet, Answer(p), UNCHANGED loopVars
    PROVE  Locally(p) /\ Quits(p)
  BY FunctionsOfProcs, QuietLoops DEF Answer, loopVars, Locally, Quits

\* The next statement of a request that has read nothing yet.
LEMMA MoveStep ==
    ASSUME TypeInv, NEW p \in Procs, NEW step, pc[p] \in Quiet,
           step \in Ordering, GoTo(p, step), req[p].handler = "createOrder",
           UNCHANGED requestVars, UNCHANGED loopVars
    PROVE  Locally(p) /\ RequestsKeep(p)
  <1>1. /\ pc'[p] = step /\ req'[p] = req[p] /\ entity'[p] = entity[p] /\ diff'[p] = diff[p]
        /\ key'[p] = key[p] /\ at'[p] = at[p] /\ Locally(p)
    BY FunctionsOfProcs DEF GoTo, requestVars, loopVars, Locally
  <1>2. pc[p] # "idle" /\ key[p] = Null /\ at[p] = 1
    BY QuietLoops
  <1>3. step \notin Saving \cup Putting \cup Removing \cup {"idle", "findImage"}
    BY DEF Ordering, Saving, Putting, Removing
  <1>4. Served(p)'
    BY <1>1, <1>2, <1>3 DEF TypeInv, Served, Statements
  <1>5. Remembered(p)'
    <2>1. Remembered(p)
      BY DEF TypeInv
    <2>2. QED  BY <1>1, <1>3, <2>1 DEF Remembered, Saving
  <1>6. Looping(p)'
    BY <1>1, <1>2, <1>3 DEF Looping, Putting, Removing
  <1>7. QED  BY <1>1, <1>4, <1>5, <1>6 DEF RequestsKeep

LEMMA StartKeeps ==
    ASSUME TypeInv, NEW p \in Procs, NEW r \in offered.requests, Start(p, r), UNCHANGED mediaVars
    PROVE  Locally(p) /\ RequestsKeep(p)
  <1>1. /\ pc'[p] = r.handler /\ req'[p] = r /\ entity'[p] = entity[p] /\ diff'[p] = diff[p]
        /\ key'[p] = key[p] /\ at'[p] = at[p] /\ Locally(p) /\ pc[p] = "idle"
    BY FunctionsOfProcs DEF Start, GoTo, mediaVars, loopVars, Locally
  <1>2. IsRequest(r) /\ r.handler \in Handlers
    BY OffersAssumption DEF TypeInv, TablesTyped, IsRequest
  <1>3. r.handler \notin Saving \cup Ordering \cup {"put", "insertFile", "associate", "deleteObject",
                                                     "deleteFile", "idle"}
    BY <1>2 DEF Handlers, Creations, Changes, Deletions, Uploads, Removals, Lineups, Mails,
       Saving, Ordering
  <1>4. Served(p)'
    BY <1>1, <1>2, <1>3 DEF Served, Statements
  <1>5. entity[p] = NoEntity /\ key[p] = Null /\ at[p] = 1
    BY <1>1 DEF TypeInv, Served
  <1>6. Remembered(p)'
    BY <1>1, <1>3, <1>5 DEF Remembered, Saving, NoEntity
  <1>7. Looping(p)'
    <2>1. r.handler = "deleteConcertImages" => r.fileIds \in Seq(Keys) /\ r.fileIds # <<>>
      BY <1>2 DEF IsRequest
    <2>2. r.handler = "deleteConcertImages" => 1 \in 1..Len(r.fileIds)
      BY <2>1, EmptySeq
    <2>3. QED  BY <1>1, <1>3, <1>5, <2>2 DEF Looping
  <1>8. QED  BY <1>1, <1>4, <1>6, <1>7 DEF RequestsKeep

LEMMA QuietAre ==
    /\ DOMAIN Creations \subseteq Quiet /\ DOMAIN Changes \subseteq Quiet
    /\ DOMAIN Deletions \subseteq Quiet
    /\ Lineups \cup Mails \cup Saving \cup Ordering \cup {"createOrder"} \subseteq Quiet
  BY DEF Quiet, Handlers, Creations, Changes, Deletions, Uploads, Removals, Lineups, Mails,
     Saving, Ordering

\* A step of ConcertService answers, or goes on with an assignment.
LEMMA CatalogueMoves ==
    ASSUME NEW p \in Procs, CatalogueStep(p)
    PROVE  \/ pc[p] \in Quiet /\ Answer(p)
           \/ ReadConcert(p) \/ ReadArtist(p) \/ SelectForSave(p)
  <1>1. ASSUME NEW h \in Quiet, NEW k, Creates(p, h, k) \/ Updates(p, h, k) \/ Deletes(p, h, k)
        PROVE  pc[p] \in Quiet /\ Answer(p)
    BY <1>1 DEF Creates, Inserts, Updates, Deletes
  <1>2. CASE Genres(p) \/ Groups(p) \/ Venues(p)
    <2>1. \E h \in DOMAIN Creations \cup DOMAIN Changes \cup DOMAIN Deletions, k \in Kinds :
             Creates(p, h, k) \/ Updates(p, h, k) \/ Deletes(p, h, k)
      BY <1>2, KindsAre DEF Genres, Groups, Venues, Creations, Changes, Deletions
    <2>2. QED  BY <1>1, <2>1, QuietAre
  <1>3. CASE CreateConcert(p) \/ CreateMember(p) \/ CreateRole(p) \/ CreateArtist(p)
             \/ CreateRule(p)
    <2>1. \E h \in DOMAIN Creations, k \in Kinds : Creates(p, h, k)
      BY <1>3, KindsAre DEF CreateConcert, CreateMember, CreateRole, CreateArtist, CreateRule,
         Creations
    <2>2. QED  BY <1>1, <2>1, QuietAre
  <1>4. CASE ChangeConcert(p) \/ ChangeMember(p) \/ ChangePosition(p) \/ ChangeRole(p)
             \/ ChangeArtist(p) \/ ChangeRule(p)
    <2>1. \E h \in DOMAIN Changes \cup DOMAIN Deletions, k \in Kinds :
             Updates(p, h, k) \/ Deletes(p, h, k)
      BY <1>4, KindsAre DEF ChangeConcert, ChangeMember, ChangePosition, ChangeRole, ChangeArtist,
         ChangeRule, Changes, Deletions
    <2>2. QED  BY <1>1, <2>1, QuietAre
  <1>5. CASE CreatePosition(p)
    <2>1. pc[p] = "createConcertPosition" /\ Answer(p)
      BY <1>5 DEF CreatePosition, Inserts
    <2>2. QED  BY <2>1, QuietAre DEF Creations
  <1>6. CASE SendBadge(p) \/ Save(p)
    <2>1. pc[p] \in Mails \cup Saving /\ Answer(p)
      BY <1>6 DEF SendBadge, Save, Mails, Saving
    <2>2. QED  BY <2>1, QuietAre
  <1>7. QED  BY <1>2, <1>3, <1>4, <1>5, <1>6 DEF CatalogueStep

LEMMA RegistrationMoves ==
    ASSUME NEW p \in Procs, RegistrationStep(p)
    PROVE  \/ pc[p] \in Quiet /\ Answer(p)
           \/ /\ pc[p] = "createOrder" /\ GoTo(p, "order") /\ UNCHANGED requestVars
              /\ MayOrder(p) /\ CheckRegistration(p)
           \/ pc[p] = "order" /\ GoTo(p, "markUsed") /\ UNCHANGED requestVars /\ PlaceOrder(p)
  <1>1. ASSUME NEW h \in Quiet, NEW k, Creates(p, h, k) \/ Updates(p, h, k) \/ Deletes(p, h, k)
        PROVE  pc[p] \in Quiet /\ Answer(p)
    BY <1>1 DEF Creates, Inserts, Updates, Deletes
  <1>2. CASE Register(p) \/ DeleteRegister(p) \/ UpdateTicket(p) \/ DeleteTicket(p)
             \/ CreateCategory(p) \/ DeleteCategory(p)
    <2>1. \E h \in DOMAIN Creations \cup DOMAIN Changes \cup DOMAIN Deletions, k \in Kinds :
             Creates(p, h, k) \/ Updates(p, h, k) \/ Deletes(p, h, k)
      BY <1>2, KindsAre DEF Register, DeleteRegister, UpdateTicket, DeleteTicket,
         CreateCategory, DeleteCategory, Creations, Changes, Deletions
    <2>2. QED  BY <1>1, <2>1, QuietAre
  <1>3. CASE CreateTicket(p)
    <2>1. pc[p] = "createTicket" /\ Answer(p)
      BY <1>3 DEF CreateTicket, Inserts
    <2>2. QED  BY <2>1, QuietAre DEF Creations
  <1>4. CASE SendTickets(p) \/ OrderFails(p) \/ MarkUsed(p)
    <2>1. pc[p] \in Mails \cup Ordering /\ Answer(p)
      BY <1>4 DEF SendTickets, OrderFails, MarkUsed, Mails, Ordering
    <2>2. QED  BY <2>1, QuietAre
  <1>5. CASE CheckRegistration(p)
    BY <1>5, QuietAre DEF CheckRegistration
  <1>6. CASE PlaceOrder(p)
    BY <1>6 DEF PlaceOrder
  <1>7. QED  BY <1>2, <1>3, <1>4, <1>5, <1>6 DEF RegistrationStep

LEMMA LineupHandler ==
    ASSUME TypeInv, NEW p \in Procs, pc[p] \in Lineups \cup Saving
    PROVE  /\ req[p].handler \in Lineups /\ IsRequest(req[p])
           /\ req[p].concert \in Ids /\ req[p].id \in Ids
  <1>1. pc[p] \in Lineups => req[p].handler = pc[p]
    BY RequestOf DEF Handlers
  <1>2. pc[p] # "idle"
    BY DEF Lineups, Saving
  <1>3. req[p].handler \in Lineups /\ IsRequest(req[p])
    BY <1>1, <1>2, StatementsOf
  <1>4. QED  BY <1>3 DEF IsRequest, Lineups, Creations

\* What an assignment reads has the types of the tables.
LEMMA AssignmentReads ==
    ASSUME TypeInv, NEW p \in Procs, ReadConcert(p) \/ ReadArtist(p) \/ SelectForSave(p),
           UNCHANGED loopVars
    PROVE  Locally(p) /\ RequestsKeep(p)
  <1>1. pc[p] \in Lineups \cup Saving /\ pc[p] \in Quiet
    BY QuietAre DEF ReadConcert, ReadArtist, SelectForSave, Saving
  <1>2. CASE Answer(p)
    BY <1>1, <1>2, AnswerStep, QuittersKeep
  <1>3. CASE ~Answer(p)
    <2>1. /\ GoTo(p, pc'[p]) /\ UNCHANGED req
          /\ \/ ReadConcert(p) /\ pc'[p] = "readArtist" /\ UNCHANGED diff
             \/ ReadArtist(p) /\ pc'[p] = "diff" /\ UNCHANGED diff
             \/ SelectForSave(p) /\ pc'[p] = "save" /\ UNCHANGED entity
      BY <1>3, FunctionsOfProcs DEF ReadConcert, ReadArtist, SelectForSave, GoTo
    <2>2. Locally(p)
      BY <1>3, <2>1, FunctionsOfProcs DEF ReadConcert, ReadArtist, SelectForSave, GoTo, loopVars,
         Locally
    <2>3. pc'[p] \in Saving /\ req'[p] = req[p] /\ key'[p] = key[p] /\ at'[p] = at[p]
      BY <2>1 DEF Saving, loopVars
    <2>4. /\ req[p].handler \in Lineups /\ IsRequest(req[p])
          /\ req[p].concert \in Ids /\ req[p].id \in Ids
      BY <1>1, LineupHandler
    <2>5. key[p] = Null /\ at[p] = 1
      BY <1>1, QuietLoops
    <2>6. Served(p)'
      BY <2>3, <2>4 DEF Served, Statements, Saving
    <2>7. Looping(p)'
      BY <2>3, <2>4, <2>5 DEF Looping, Saving, Lineups
    <2>8. Remembered(p)'
      <3>1. "concert" \in Kinds /\ "artist" \in Kinds
        BY KindsAre
      <3>2. /\ \A i \in Ids : /\ IsRow("concert", rows["concert"][i])
                              /\ IsRow("artist", rows["artist"][i])
            /\ lineup \in [Ids -> SUBSET Ids]
        BY <3>1 DEF TypeInv, TablesTyped
      <3>3. CASE ReadConcert(p) /\ pc'[p] = "readArtist"
        <4>1. /\ rows["concert"][req[p].concert] # Gone
              /\ entity'[p] = [concert |-> rows["concert"][req[p].concert],
                               lineup |-> lineup[req[p].concert],
                               artists |-> [a \in Ids |->
                                   IF a \in lineup[req[p].concert]
                                      THEN rows["artist"][a] ELSE Gone]]
          BY <1>3, <3>3, FunctionsOfProcs DEF ReadConcert
        <4>2. ASSUME NEW i \in Ids
              PROVE  IsRow("artist", entity'[p].artists[i])
          <5>1. \/ entity'[p].artists[i] = rows["artist"][i] \/ entity'[p].artists[i] = Gone
            BY <4>1
          <5>2. IsRow("artist", Gone)
            BY DEF IsRow
          <5>3. QED  BY <3>2, <5>1, <5>2
        <4>3. lineup[req[p].concert] \subseteq Ids
          BY <2>4, <3>2
        <4>4. pc'[p] # "save"
          BY <3>3
        <4>5. QED  BY <2>4, <3>2, <4>1, <4>2, <4>3, <4>4 DEF Remembered
      <3>4. CASE ReadArtist(p) /\ pc'[p] = "diff"
        <4>1. Remembered(p) /\ pc[p] \in Saving
          BY <3>4 DEF TypeInv, ReadArtist, Saving
        <4> DEFINE read == IF req[p].handler = "assignArtistToConcert"
                              THEN rows["artist"][req[p].id] ELSE entity[p].artists[req[p].id]
        <4>4. /\ entity[p] = [concert |-> entity[p].concert, lineup |-> entity[p].lineup,
                              artists |-> entity[p].artists]
              /\ entity[p].artists = [i \in Ids |-> entity[p].artists[i]]
              /\ \A i \in Ids : IsRow("artist", entity[p].artists[i])
          BY <4>1 DEF Remembered
        <4>2. IsRow("artist", read)
          BY <2>4, <3>2, <4>4
        <4>3. entity' = [entity EXCEPT ![p].artists =
                             [entity[p].artists EXCEPT ![req[p].id] = read]]
          <5>1. CASE req[p].handler = "assignArtistToConcert"
            BY <1>3, <3>4, <5>1 DEF ReadArtist
          <5>2. CASE req[p].handler # "assignArtistToConcert"
            <6>1. entity' = [entity EXCEPT ![p].artists = entity[p].artists]
              BY <1>3, <3>4, <5>2 DEF ReadArtist
            <6>2. [entity[p].artists EXCEPT ![req[p].id] = read] = entity[p].artists
              BY <2>4, <4>4, <5>2
            <6>3. QED  BY <6>1, <6>2
          <5>3. QED  BY <5>1, <5>2
        <4> HIDE DEF read
        <4>5. entity'[p] = [concert |-> entity[p].concert, lineup |-> entity[p].lineup,
                            artists |-> [entity[p].artists EXCEPT ![req[p].id] = read]]
          BY <4>3, <4>4, FunctionsOfProcs
        <4>6. entity'[p].artists
                 = [i \in Ids |-> IF i = req[p].id THEN read ELSE entity[p].artists[i]]
          <5>1. \A f : f = [i \in Ids |-> f[i]] =>
                   [f EXCEPT ![req[p].id] = read]
                       = [i \in Ids |-> IF i = req[p].id THEN read ELSE f[i]]
            BY <2>4
          <5>2. entity'[p].artists = [entity[p].artists EXCEPT ![req[p].id] = read]
            BY <4>5
          <5>3. QED  BY <4>4, <5>1, <5>2
        <4>7. /\ entity'[p].artists = [i \in Ids |-> entity'[p].artists[i]]
              /\ \A i \in Ids : IsRow("artist", entity'[p].artists[i])
          BY <4>2, <4>4, <4>6
        <4>8. pc'[p] # "save"
          BY <3>4
        <4>9. QED  BY <4>1, <4>5, <4>7, <4>8 DEF Remembered
      <3>5. CASE SelectForSave(p) /\ pc'[p] = "save"
        <4>1. Remembered(p) /\ pc[p] \in Saving /\ entity'[p] = entity[p]
          BY <3>5 DEF TypeInv, SelectForSave, Saving
        <4>2. /\ diff'[p].revive \subseteq InMemory(p)
              /\ diff'[p].names \subseteq InMemory(p)
              /\ diff'[p].add \subseteq InMemory(p)
          BY <3>5, FunctionsOfProcs DEF SelectForSave
        <4>3. InMemory(p)' = InMemory(p)
          BY <4>1 DEF InMemory
        <4>4. QED  BY <4>1, <4>2, <4>3 DEF Remembered
      <3>6. QED  BY <2>1, <3>3, <3>4, <3>5
    <2>9. QED  BY <2>2, <2>6, <2>7, <2>8 DEF RequestsKeep
  <1>4. QED  BY <1>2, <1>3

-----------------------------------------------------------------------------
(* Pictures                                                                  *)

Adding == {"count", "put", "insertFile", "associate"} \cup DOMAIN Uploads
Taking == {"find", "findImage", "deleteObject", "deleteFile"} \cup DOMAIN Removals

Types == {"artist", "member", "user", "concert"}

\* A request about pictures knows whose they are.
LEMMA PictureRequest ==
    ASSUME TypeInv, NEW p \in Procs, pc[p] \in Adding \cup Taking
    PROVE  /\ pc[p] # "idle" /\ IsRequest(req[p]) /\ req[p].id \in Ids
           /\ pc[p] \in Adding => /\ req[p].handler \in DOMAIN Uploads
                                  /\ req[p].files \in Nat \ {0}
           /\ pc[p] \in Taking => req[p].handler \in DOMAIN Removals
           /\ req[p].handler = "deleteConcertImages" =>
                 req[p].fileIds \in Seq(Keys) /\ req[p].fileIds # <<>>
           /\ Owner(p).type \in Types /\ Owner(p) \in [type : Types, id : Ids]
           /\ Owner(p) # Gone
           /\ pc[p] = "findImage" => req[p].handler = "deleteConcertImages"
           /\ pc[p] \in Handlers => req[p].handler = pc[p]
  <1>1. pc[p] # "idle"
    BY DEF Adding, Taking, Uploads, Removals
  <1>2. /\ pc[p] \in DOMAIN Uploads \cup DOMAIN Removals => req[p].handler = pc[p]
        /\ pc[p] \in Handlers => req[p].handler = pc[p]
    BY RequestOf DEF Handlers
  <1>3. /\ pc[p] \in Adding => req[p].handler \in DOMAIN Uploads
        /\ pc[p] \in Taking => req[p].handler \in DOMAIN Removals
        /\ pc[p] = "findImage" => req[p].handler = "deleteConcertImages"
    BY <1>1, <1>2, StatementsOf DEF Adding, Taking, Putting, Removing, Removals
  <1>4. IsRequest(req[p])
    BY <1>1, StatementsOf
  <1>5. req[p].handler \notin DOMAIN Creations
    BY <1>3 DEF Uploads, Removals, Creations
  <1>6. /\ req[p].id \in Ids
        /\ pc[p] \in Adding => req[p].files \in Nat \ {0}
        /\ req[p].handler = "deleteConcertImages" =>
              req[p].fileIds \in Seq(Keys) /\ req[p].fileIds # <<>>
    BY <1>3, <1>4, <1>5 DEF IsRequest
  <1>7. TypeOf(req[p].handler) \in Types
    BY <1>3 DEF TypeOf, Uploads, Removals, Types
  <1>8. Owner(p) = [type |-> TypeOf(req[p].handler), id |-> req[p].id]
    BY DEF Owner
  <1>9. Owner(p) # Gone
    BY <1>6, <1>7, <1>8, NothingAssumption DEF Types
  <1>10. Owner(p) \in [type : Types, id : Ids] /\ Owner(p).type \in Types
    BY <1>6, <1>7, <1>8
  <1>11. QED  BY <1>1, <1>2, <1>3, <1>4, <1>6, <1>9, <1>10

LEMMA FinishKeeps ==
    ASSUME TypeInv, NEW p \in Procs, Finish(p)
    PROVE  Locally(p) /\ RequestsKeep(p)
  <1>1. Locally(p) /\ Quits(p)
    BY FunctionsOfProcs DEF Finish, Answer, Locally, Quits
  <1>2. QED  BY <1>1, QuittersKeep

LEMMA StepKeeps ==
    ASSUME TypeInv, NEW p \in Procs, pc[p] \in Adding \cup Taking, NEW step, Step(p, step),
           step \in Statements(req[p].handler) \cap (Adding \cup Taking),
           key' = [key EXCEPT ![p] = key'[p]], at' = [at EXCEPT ![p] = at'[p]],
           Looping(p)'
    PROVE  Locally(p) /\ RequestsKeep(p)
  <1>1. /\ pc'[p] = step /\ req'[p] = req[p] /\ entity'[p] = entity[p] /\ diff'[p] = diff[p]
        /\ Locally(p)
    BY FunctionsOfProcs DEF Step, GoTo, requestVars, Locally
  <1>2. step \notin Saving \cup {"idle"}
    BY DEF Adding, Taking, Uploads, Removals, Saving
  <1>3. Served(p)'
    BY <1>1, <1>2, PictureRequest DEF Served
  <1>4. Remembered(p)
    BY DEF TypeInv
  <1>5. Remembered(p)'
    BY <1>1, <1>2, <1>4 DEF Remembered, Saving
  <1>6. QED  BY <1>1, <1>3, <1>5 DEF RequestsKeep

\* The next image of removeConcertImages, or the end of the request.
LEMMA NextImageKeeps ==
    ASSUME TypeInv, NEW p \in Procs, pc[p] \in Taking, NextImage(p)
    PROVE  Locally(p) /\ RequestsKeep(p)
  <1>1. CASE Finish(p)
    BY <1>1, FinishKeeps
  <1>2. CASE ~Finish(p)
    <2>1. /\ req[p].handler = "deleteConcertImages" /\ at[p] < Len(req[p].fileIds)
          /\ Step(p, "findImage")
          /\ at' = [at EXCEPT ![p] = at[p] + 1] /\ key' = [key EXCEPT ![p] = Null]
      BY <1>2 DEF NextImage
    <2>2. pc[p] # "idle" /\ Looping(p) /\ Len(req[p].fileIds) \in Nat
      BY PictureRequest, LenProperties, <2>1 DEF TypeInv
    <2>3. pc[p] \notin {"put", "insertFile", "associate"}
      BY DEF Taking, Removals
    <2>4. at[p] \in 1..Len(req[p].fileIds)
      BY <2>1, <2>2, <2>3 DEF Looping
    <2>5. /\ at'[p] = at[p] + 1 /\ key'[p] = Null /\ pc'[p] = "findImage" /\ req'[p] = req[p]
          /\ key' = [key EXCEPT ![p] = key'[p]] /\ at' = [at EXCEPT ![p] = at'[p]]
      BY <2>1, FunctionsOfProcs DEF Step, GoTo, requestVars
    <2>6. Looping(p)'
      BY <2>1, <2>2, <2>4, <2>5 DEF Looping
    <2>7. "findImage" \in Statements(req[p].handler) \cap Taking
      BY <2>1 DEF Statements, Taking
    <2>8. QED  BY <2>1, <2>5, <2>6, <2>7, StepKeeps
  <1>3. QED  BY <1>1, <1>2

LEMMA PictureStepKeeps ==
    ASSUME TypeInv, NEW p \in Procs, MediaStep(p) \/ MediaFault(p)
    PROVE  Locally(p) /\ RequestsKeep(p)
  <1>1. Looping(p)
    BY DEF TypeInv
  <1>2. CASE ReadOwner(p)
    <2>1. pc[p] \in {"uploadArtistPicture", "uploadConcertMember",
                     "deleteArtistPicture", "deleteConcertMemberPicture"}
      BY <1>2 DEF ReadOwner
    <2>2. /\ pc[p] \in Adding \cup Taking /\ req[p].handler = pc[p] /\ pc[p] # "idle"
          /\ pc[p] \notin {"put", "insertFile", "associate", "deleteObject", "deleteFile",
                           "deleteConcertImages"}
      BY <2>1, PictureRequest DEF Adding, Taking, Uploads, Removals, Handlers
    <2>3. CASE Finish(p)
      BY <2>3, FinishKeeps
    <2>4. CASE ~Finish(p)
      <3> DEFINE step == IF pc[p] \in DOMAIN Uploads THEN "count" ELSE "find"
      <3>1. Step(p, step) /\ UNCHANGED loopVars
        BY <1>2, <2>4 DEF ReadOwner
      <3>2. step \in Statements(req[p].handler) \cap (Adding \cup Taking)
        BY <2>1, <2>2 DEF Statements, Uploads, Removals, Adding, Taking, Putting, Removing
      <3>3. step \in {"count", "find"}
        OBVIOUS
      <3> HIDE DEF step
      <3>4. pc'[p] = step /\ req'[p] = req[p] /\ key' = key /\ at' = at
        BY <3>1, FunctionsOfProcs DEF Step, GoTo, requestVars, loopVars
      <3>5. Looping(p)'
        BY <1>1, <2>2, <3>3, <3>4 DEF Looping
      <3>6. key' = [key EXCEPT ![p] = key'[p]] /\ at' = [at EXCEPT ![p] = at'[p]]
        BY <3>4, FunctionsOfProcs
      <3>7. QED  BY <2>2, <3>1, <3>2, <3>5, <3>6, StepKeeps
    <2>5. QED  BY <2>3, <2>4
  <1>3. CASE CountPictures(p)
    <2>1. pc[p] \in {"count", "uploadFile", "uploadConcertImages"} /\ pc[p] \in Adding
      BY <1>3 DEF CountPictures, Adding, Uploads
    <2>2. CASE Finish(p)
      BY <2>2, FinishKeeps
    <2>3. CASE ~Finish(p)
      <3>1. Step(p, "put") /\ UNCHANGED loopVars
        BY <1>3, <2>3 DEF CountPictures
      <3>2. req[p].handler \in DOMAIN Uploads /\ req[p].files \in Nat \ {0}
        BY <2>1, PictureRequest
      <3>3. key[p] = Null /\ at[p] = 1
        BY <1>1, <2>1, <3>2 DEF Looping, Uploads
      <3>4. pc'[p] = "put" /\ req'[p] = req[p] /\ key' = key /\ at' = at
        BY <3>1, FunctionsOfProcs DEF Step, GoTo, requestVars, loopVars
      <3>5. Looping(p)'
        BY <3>2, <3>3, <3>4 DEF Looping
      <3>6. "put" \in Statements(req[p].handler) \cap Adding
        BY <3>2 DEF Statements, Putting, Adding
      <3>7. key' = [key EXCEPT ![p] = key'[p]] /\ at' = [at EXCEPT ![p] = at'[p]]
        BY <3>4, FunctionsOfProcs
      <3>8. QED  BY <2>1, <3>1, <3>5, <3>6, <3>7, StepKeeps
    <2>4. QED  BY <2>2, <2>3
  <1>4. CASE PutObject(p)
    <2>1. /\ pc[p] = "put" /\ pc[p] \in Adding /\ Step(p, "insertFile")
          /\ key' = [key EXCEPT ![p] = uploads + 1] /\ at' = at
          /\ uploads + 1 \in Keys
      BY <1>4, BoundsAssumption DEF PutObject, Adding, Keys, TypeInv, PicturesTyped, MediaTypeOK
    <2>2. req[p].handler \in DOMAIN Uploads
      BY <2>1, PictureRequest
    <2>3. /\ pc'[p] = "insertFile" /\ req'[p] = req[p] /\ key'[p] \in Keys /\ at'[p] = at[p]
          /\ key' = [key EXCEPT ![p] = key'[p]] /\ at' = [at EXCEPT ![p] = at'[p]]
      BY <2>1, FunctionsOfProcs DEF Step, GoTo, requestVars
    <2>4. Looping(p)'
      BY <1>1, <2>1, <2>3 DEF Looping
    <2>5. "insertFile" \in Statements(req[p].handler) \cap Adding
      BY <2>2 DEF Statements, Putting, Adding
    <2>6. QED  BY <2>1, <2>3, <2>4, <2>5, StepKeeps
  <1>5. CASE InsertFile(p)
    <2>1. /\ pc[p] = "insertFile" /\ pc[p] \in Adding /\ Step(p, "associate")
          /\ key' = key /\ at' = at
      BY <1>5 DEF InsertFile, Adding, loopVars
    <2>2. req[p].handler \in DOMAIN Uploads
      BY <2>1, PictureRequest
    <2>3. /\ pc'[p] = "associate" /\ req'[p] = req[p]
          /\ key' = [key EXCEPT ![p] = key'[p]] /\ at' = [at EXCEPT ![p] = at'[p]]
      BY <2>1, FunctionsOfProcs DEF Step, GoTo, requestVars
    <2>4. Looping(p)'
      BY <1>1, <2>1, <2>3 DEF Looping
    <2>5. "associate" \in Statements(req[p].handler) \cap Adding
      BY <2>2 DEF Statements, Putting, Adding
    <2>6. QED  BY <2>1, <2>3, <2>4, <2>5, StepKeeps
  <1>6. CASE InsertAssociation(p)
    <2>1. pc[p] = "associate" /\ pc[p] \in Adding
      BY <1>6 DEF InsertAssociation, Adding
    <2>2. CASE Finish(p)
      BY <2>2, FinishKeeps
    <2>3. CASE ~Finish(p)
      <3>1. /\ Step(p, "put") /\ at[p] # req[p].files
            /\ key' = [key EXCEPT ![p] = Null] /\ at' = [at EXCEPT ![p] = at[p] + 1]
        BY <1>6, <2>3 DEF InsertAssociation
      <3>2. req[p].handler \in DOMAIN Uploads /\ req[p].files \in Nat \ {0}
        BY <2>1, PictureRequest
      <3>3. at[p] + 1 \in 1..req[p].files
        BY <1>1, <2>1, <3>1, <3>2 DEF Looping
      <3>4. /\ pc'[p] = "put" /\ req'[p] = req[p] /\ key'[p] = Null /\ at'[p] = at[p] + 1
            /\ key' = [key EXCEPT ![p] = key'[p]] /\ at' = [at EXCEPT ![p] = at'[p]]
        BY <3>1, FunctionsOfProcs DEF Step, GoTo, requestVars
      <3>5. Looping(p)'
        BY <3>3, <3>4 DEF Looping
      <3>6. "put" \in Statements(req[p].handler) \cap Adding
        BY <3>2 DEF Statements, Putting, Adding
      <3>7. QED  BY <2>1, <3>1, <3>4, <3>5, <3>6, StepKeeps
    <2>4. QED  BY <2>2, <2>3
  <1>7. CASE FindPicture(p)
    <2>1. pc[p] \in {"find", "deleteProfilePicture"} /\ pc[p] \in Taking
      BY <1>7 DEF FindPicture, Taking, Removals
    <2>2. CASE Finish(p)
      BY <2>2, FinishKeeps
    <2>3. CASE ~Finish(p)
      <3>1. PICK k \in Shown(Owner(p)) :
               /\ key' = [key EXCEPT ![p] = k] /\ Step(p, "deleteObject") /\ UNCHANGED at
        BY <1>7, <2>3 DEF FindPicture
      <3>2. req[p].handler \in DOMAIN Removals
        BY <2>1, PictureRequest
      <3>3. /\ pc'[p] = "deleteObject" /\ req'[p] = req[p] /\ key'[p] \in Keys /\ at'[p] = at[p]
            /\ key' = [key EXCEPT ![p] = key'[p]] /\ at' = [at EXCEPT ![p] = at'[p]]
        BY <3>1, FunctionsOfProcs DEF Step, GoTo, requestVars, Shown
      <3>4. Looping(p)'
        BY <1>1, <2>1, <3>3 DEF Looping
      <3>5. "deleteObject" \in Statements(req[p].handler) \cap Taking
        BY <3>2 DEF Statements, Removing, Taking
      <3>6. QED  BY <2>1, <3>1, <3>3, <3>4, <3>5, StepKeeps
    <2>4. QED  BY <2>2, <2>3
  <1>8. CASE FindImage(p)
    <2>1. pc[p] \in {"deleteConcertImages", "findImage"} /\ pc[p] \in Taking
      BY <1>8 DEF FindImage, Taking, Removals
    <2>2. CASE NextImage(p)
      BY <2>1, <2>2, NextImageKeeps
    <2>3. CASE ~NextImage(p)
      <3>1. /\ key' = [key EXCEPT ![p] = req[p].fileIds[at[p]]]
            /\ Step(p, "deleteObject") /\ UNCHANGED at
        BY <1>8, <2>3 DEF FindImage
      <3>2. /\ req[p].handler = "deleteConcertImages" /\ req[p].fileIds \in Seq(Keys)
            /\ pc[p] # "idle"
        BY <2>1, PictureRequest DEF Handlers, Removals
      <3>3. at[p] \in 1..Len(req[p].fileIds)
        BY <1>1, <2>1, <3>2 DEF Looping
      <3>4. req[p].fileIds[at[p]] \in Keys
        BY <3>2, <3>3, ElementOfSeq
      <3>5. /\ pc'[p] = "deleteObject" /\ req'[p] = req[p] /\ key'[p] \in Keys /\ at'[p] = at[p]
            /\ key' = [key EXCEPT ![p] = key'[p]] /\ at' = [at EXCEPT ![p] = at'[p]]
        BY <3>1, <3>4, FunctionsOfProcs DEF Step, GoTo, requestVars
      <3>6. Looping(p)'
        BY <3>2, <3>3, <3>5 DEF Looping
      <3>7. "deleteObject" \in Statements(req[p].handler) \cap Taking
        BY <3>2 DEF Statements, Removing, Taking, Removals
      <3>8. QED  BY <2>1, <3>1, <3>5, <3>6, <3>7, StepKeeps
    <2>4. QED  BY <2>2, <2>3
  <1>9. CASE DeleteObject(p)
    <2>1. /\ pc[p] = "deleteObject" /\ pc[p] \in Taking /\ Step(p, "deleteFile")
          /\ key' = key /\ at' = at
      BY <1>9 DEF DeleteObject, Taking, loopVars
    <2>2. req[p].handler \in DOMAIN Removals
      BY <2>1, PictureRequest
    <2>3. /\ pc'[p] = "deleteFile" /\ req'[p] = req[p]
          /\ key' = [key EXCEPT ![p] = key'[p]] /\ at' = [at EXCEPT ![p] = at'[p]]
      BY <2>1, FunctionsOfProcs DEF Step, GoTo, requestVars
    <2>4. Looping(p)'
      BY <1>1, <2>1, <2>3 DEF Looping
    <2>5. "deleteFile" \in Statements(req[p].handler) \cap Taking
      BY <2>2 DEF Statements, Removing, Taking
    <2>6. QED  BY <2>1, <2>3, <2>4, <2>5, StepKeeps
  <1>10. CASE DeleteFile(p) \/ DeleteFails(p) \/ DeleteFileFails(p)
    <2>1. pc[p] \in Taking /\ NextImage(p)
      BY <1>10 DEF DeleteFile, DeleteFails, DeleteFileFails, Taking
    <2>2. QED  BY <2>1, NextImageKeeps
  <1>11. CASE PutFails(p) \/ InsertFileFails(p) \/ InsertAssociationFails(p)
    BY <1>11, FinishKeeps DEF PutFails, InsertFileFails, InsertAssociationFails
  <1>12. QED
    BY <1>2, <1>3, <1>4, <1>5, <1>6, <1>7, <1>8, <1>9, <1>10, <1>11 DEF MediaStep, MediaFault

LEMMA PicturesKeepTypes ==
    ASSUME TypeInv, NEW p \in Procs, MediaStep(p) \/ MediaFault(p)
    PROVE  PicturesTyped'
  <1>1. PicturesTyped /\ Looping(p)
    BY DEF TypeInv
  <1>2. Locally(p) /\ RequestsKeep(p)
    BY PictureStepKeeps
  <1>3. key' \in [Procs -> Keys \cup {Null}] /\ at' \in [Procs -> Nat \ {0}]
    <2>1. Looping(p)' /\ Served(p)'
      BY <1>2 DEF RequestsKeep
    <2>2. pc'[p] = "idle" \/ IsRequest(req'[p])
      BY <2>1 DEF Served
    <2>3. key'[p] \in Keys \cup {Null}
      BY <2>1 DEF Looping
    <2>4. at'[p] \in Nat \ {0}
      BY <2>1 DEF Looping
    <2>5. /\ key \in [Procs -> Keys \cup {Null}] /\ at \in [Procs -> Nat \ {0}]
          /\ key' = [key EXCEPT ![p] = key'[p]] /\ at' = [at EXCEPT ![p] = at'[p]]
      BY <1>1, <1>2 DEF PicturesTyped, MediaTypeOK, Locally
    <2>6. QED  BY <2>3, <2>4, <2>5
  <1>4. CASE UNCHANGED <<store, file, association, uploads, cut>>
    BY <1>1, <1>3, <1>4 DEF PicturesTyped, MediaTypeOK
  <1>5. CASE PutObject(p)
    <2>1. uploads + 1 \in Keys /\ uploads + 1 \in 0..MaxKeys
      BY <1>1, <1>5, BoundsAssumption DEF PutObject, Keys, PicturesTyped, MediaTypeOK
    <2>2. QED  BY <1>1, <1>3, <1>5, <2>1 DEF PutObject, PicturesTyped, MediaTypeOK
  <1>6. CASE InsertFile(p)
    <2>1. key[p] \in Keys
      BY <1>1, <1>6 DEF InsertFile, Looping
    <2>2. QED  BY <1>1, <1>3, <1>6, <2>1 DEF InsertFile, PicturesTyped, MediaTypeOK
  <1>7. CASE InsertAssociation(p)
    <2>1. key[p] \in Keys
      BY <1>1, <1>7 DEF InsertAssociation, Looping
    <2>2. Owner(p) \in [type : Types, id : Ids] /\ Owner(p).id \in Ids
      BY <1>7, PictureRequest DEF InsertAssociation, Adding
    <2>3. QED  BY <1>1, <1>3, <1>7, <2>1, <2>2
             DEF InsertAssociation, PicturesTyped, MediaTypeOK, Types
  <1>8. CASE DeleteObject(p)
    BY <1>1, <1>3, <1>8 DEF DeleteObject, PicturesTyped, MediaTypeOK
  <1>9. CASE DeleteFile(p)
    BY <1>1, <1>3, <1>9 DEF DeleteFile, PicturesTyped, MediaTypeOK
  <1>10. CASE InsertFileFails(p) \/ InsertAssociationFails(p) \/ DeleteFileFails(p)
    <2>1. key[p] \in Keys
      BY <1>1, <1>10 DEF InsertFileFails, InsertAssociationFails, DeleteFileFails, Looping
    <2>2. cut' = cut \cup {key[p]} /\ UNCHANGED <<store, file, association, uploads>>
      BY <1>10 DEF InsertFileFails, InsertAssociationFails, DeleteFileFails
    <2>3. QED  BY <1>1, <1>3, <2>1, <2>2 DEF PicturesTyped, MediaTypeOK
  <1>11. QED
    BY <1>4, <1>5, <1>6, <1>7, <1>8, <1>9, <1>10
       DEF MediaStep, MediaFault, ReadOwner, CountPictures, FindPicture, FindImage, PutFails,
           DeleteFails, bucketVars

-----------------------------------------------------------------------------
(* The type invariant                                                        *)

Acts(p) ==
    Arrive(p) \/ CatalogueAlone(p) \/ MediaAlone(p) \/ StoreFault(p) \/ RegistrationAlone(p)

\* A step of a request moves that request alone.
LEMMA ActsLocally ==
    ASSUME TypeInv, NEW p \in Procs, Acts(p)
    PROVE  Locally(p) /\ RequestsKeep(p)
  <1>1. CASE Arrive(p)
    BY <1>1, StartKeeps DEF Arrive
  <1>2. CASE CatalogueAlone(p)
    <2>1. CatalogueStep(p) /\ UNCHANGED loopVars
      BY <1>2 DEF CatalogueAlone, mediaVars
    <2>2. QED  BY <2>1, CatalogueMoves, AnswerStep, QuittersKeep, AssignmentReads
  <1>3. CASE MediaAlone(p) \/ StoreFault(p)
    BY <1>3, PictureStepKeeps DEF MediaAlone, StoreFault
  <1>4. CASE RegistrationAlone(p)
    <2>1. RegistrationStep(p) /\ UNCHANGED loopVars
      BY <1>4 DEF RegistrationAlone, mediaVars
    <2>2. CASE pc[p] \in Quiet /\ Answer(p)
      BY <2>1, <2>2, AnswerStep, QuittersKeep
    <2>3. CASE \/ pc[p] = "createOrder" /\ GoTo(p, "order") /\ UNCHANGED requestVars
               \/ pc[p] = "order" /\ GoTo(p, "markUsed") /\ UNCHANGED requestVars
      <3>1. pc[p] \in Quiet /\ "order" \in Ordering /\ "markUsed" \in Ordering
        BY <2>3, QuietAre DEF Ordering
      <3>2. req[p].handler = "createOrder"
        BY <2>3, StatementsOf, RequestOf DEF Ordering, Handlers
      <3>3. QED  BY <2>1, <2>3, <3>1, <3>2, MoveStep
    <2>4. QED  BY <2>1, <2>2, <2>3, RegistrationMoves
  <1>5. QED  BY <1>1, <1>2, <1>3, <1>4 DEF Acts

\* A step is one of a request, the end of the process, which ends all of them,
\* or one of a listing.
LEMMA RequestSteps ==
    ASSUME Next
    PROVE  \/ UNCHANGED <<catalogueVars, mediaVars, registrationVars>>
           \/ ProcessEnds /\ \A p \in Procs : Quits(p)
           \/ \E p \in Procs : Acts(p)
  <1>1. CASE ListingsAlone \/ Terminating
    BY <1>1 DEF ListingsAlone, Terminating, backofficeVars
  <1>2. CASE ProcessEnds
    BY <1>2 DEF ProcessEnds, Crash, MediaCrash, Quits
  <1>3. QED  BY <1>1, <1>2 DEF Next, Acts

\* The codes of badges and tickets.
LEMMA CodesStay ==
    ASSUME Next, made \subseteq Codes
    PROVE  made' \subseteq Codes /\ offered' = offered
  <1>1. ASSUME NEW p \in Procs, CatalogueStep(p)
        PROVE  made' \subseteq Codes /\ offered' = offered
    <2>1. CASE CreatePosition(p)
      BY <2>1, NextCodeIsNew DEF CreatePosition, Inserts
    <2>2. CASE ~CreatePosition(p)
      BY <1>1, <2>2 DEF CatalogueStep, Genres, Groups, Venues, CreateConcert, ChangeConcert,
         CreateMember, ChangeMember, ChangePosition, CreateRole, ChangeRole, CreateArtist,
         ChangeArtist, CreateRule, ChangeRule, SendBadge, ReadConcert,
         ReadArtist, SelectForSave, Save, Creates, Inserts, Updates, Deletes, tableVars
    <2>3. QED  BY <2>1, <2>2
  <1>2. ASSUME NEW p \in Procs, RegistrationStep(p)
        PROVE  made' \subseteq Codes /\ offered' = offered
    <2>1. CASE CreateTicket(p)
      BY <2>1, NextCodeIsNew DEF CreateTicket, Inserts
    <2>2. CASE ~CreateTicket(p)
      BY <1>2, <2>2 DEF RegistrationStep, Register, DeleteRegister, CheckRegistration, PlaceOrder,
         OrderFails, MarkUsed, UpdateTicket, DeleteTicket, CreateCategory, DeleteCategory,
         SendTickets, Creates, Inserts, Updates, Deletes, tableVars
    <2>3. QED  BY <2>1, <2>2
  <1>3. QED
    BY <1>1, <1>2 DEF Next, Arrive, Start, CatalogueAlone, MediaAlone, StoreFault,
       RegistrationAlone, ListingsAlone, ProcessEnds, Crash, Terminating, backofficeVars,
       catalogueVars, tableVars

LEMMA PicturesStay ==
    ASSUME TypeInv, Next
    PROVE  PicturesTyped'
  <1>1. CASE \E p \in Procs : MediaAlone(p) \/ StoreFault(p)
    BY <1>1, PicturesKeepTypes DEF MediaAlone, StoreFault
  <1>2. CASE ProcessEnds
    <2>1. PicturesTyped /\ \A p \in Procs : Looping(p)
      BY DEF TypeInv
    <2>2. \A p \in Procs : InBetween(p) => key[p] \in Keys
      BY <2>1 DEF InBetween, Looping
    <2>3. QED  BY <1>2, <2>1, <2>2 DEF ProcessEnds, MediaCrash, PicturesTyped, MediaTypeOK
  <1>3. CASE UNCHANGED mediaVars
    BY <1>3 DEF TypeInv, mediaVars, bucketVars, loopVars, PicturesTyped, MediaTypeOK
  <1>4. QED
    BY <1>1, <1>2, <1>3 DEF Next, Arrive, CatalogueAlone, RegistrationAlone, ListingsAlone,
       Terminating, backofficeVars

LEMMA InitTypeInv == Init => TypeInv
  <1> SUFFICES ASSUME Init
               PROVE  TypeInv
    OBVIOUS
  <1>1. TablesTyped
    BY TablesAssumption DEF Init, CatalogueInit, TablesTyped
  <1>2. PicturesTyped
    BY BoundsAssumption DEF Init, MediaInit, PicturesTyped, MediaTypeOK
  <1>3. \A p \in Procs : Served(p) /\ Remembered(p) /\ Looping(p)
    BY DEF Init, CatalogueInit, MediaInit, Served, Remembered, Looping, Saving, NoEntity
  <1>4. QED
    BY <1>1, <1>2, <1>3 DEF TypeInv, Init, CatalogueInit

LEMMA NextTypeInv ==
    ASSUME TypeInv, [Next]_backofficeVars
    PROVE  TypeInv'
  <1>1. CASE Next
    <2>1. TablesTyped'
      <3>1. TablesTyped
        BY DEF TypeInv
      <3>2. made' \subseteq Codes /\ offered' = offered
        BY <1>1, <3>1, CodesStay DEF TablesTyped
      <3>3. CASE UNCHANGED <<rows, lineup, born>>
        BY <3>1, <3>2, <3>3 DEF TablesTyped
      <3>4. CASE \E p \in Procs : TableStep(p)
        BY <3>1, <3>2, <3>4, RowsKeepTypes DEF TablesTyped
      <3>5. QED  BY <1>1, <3>3, <3>4, TableSteps
    <2>2. PicturesTyped'
      BY <1>1, PicturesStay
    <2>3. /\ \A p \in Procs : Served(p)' /\ Remembered(p)' /\ Looping(p)'
          /\ pc' = [p \in Procs |-> pc'[p]] /\ req' = [p \in Procs |-> req'[p]]
          /\ entity' = [p \in Procs |-> entity'[p]] /\ diff' = [p \in Procs |-> diff'[p]]
      <3>1. CASE UNCHANGED <<catalogueVars, mediaVars, registrationVars>>
        BY <3>1 DEF TypeInv, catalogueVars, mediaVars, requestVars, loopVars, Served, Remembered,
           Looping, InMemory
      <3>2. CASE ProcessEnds /\ \A p \in Procs : Quits(p)
        BY <3>2, QuittersKeep DEF RequestsKeep, ProcessEnds, Crash
      <3>3. ASSUME NEW p \in Procs, Locally(p), RequestsKeep(p)
            PROVE  /\ \A q \in Procs : Served(q)' /\ Remembered(q)' /\ Looping(q)'
                   /\ pc' = [q \in Procs |-> pc'[q]] /\ req' = [q \in Procs |-> req'[q]]
                   /\ entity' = [q \in Procs |-> entity'[q]] /\ diff' = [q \in Procs |-> diff'[q]]
        <4>1. \A q \in Procs : RequestsKeep(q)
          BY <3>3, OthersKeep
        <4>2. QED  BY <3>3, <4>1, FunctionsOfProcs DEF RequestsKeep, Locally
      <3>4. QED  BY <1>1, <3>1, <3>2, <3>3, RequestSteps, ActsLocally
    <2>4. QED  BY <2>1, <2>2, <2>3 DEF TypeInv
  <1>2. CASE UNCHANGED backofficeVars
    BY <1>2 DEF TypeInv, backofficeVars, catalogueVars, tableVars, requestVars, mediaVars,
       bucketVars, loopVars, TablesTyped, Served, Remembered, Looping, InMemory, PicturesTyped,
       MediaTypeOK
  <1>3. QED  BY <1>1, <1>2

-----------------------------------------------------------------------------
\* In every run rows have the types of their tables, identifiers, codes and
\* pictures those of their bounds, and a request that is answered leaves
\* nothing in memory.
THEOREM TypesHold == Spec => []TypeOK
  <1>1. TypeInv => TypeOK
    BY DEF TypeInv, TypeOK, TablesTyped, Served, PicturesTyped
  <1>2. QED  BY <1>1, InitTypeInv, NextTypeInv, PTL DEF Spec

\* Every reference of a row is to a row that is there, and every artist of a
\* line-up and its concert are, whatever deletions overlap with insertions,
\* updates and assignments.
THEOREM ReferencesAlwaysHold == Spec => []ReferencesHold
  <1>1. Init => ReferencesHold
    BY TablesAssumption DEF Init, CatalogueInit, ReferencesHold
  <1>2. TypeInv /\ ReferencesHold /\ [Next]_backofficeVars => ReferencesHold'
    <2>1. CASE UNCHANGED backofficeVars
      BY <2>1 DEF backofficeVars, catalogueVars, tableVars, ReferencesHold
    <2>2. CASE Next
      BY <2>2, TableSteps, ReferencesStay DEF ReferencesHold
    <2>3. QED  BY <2>1, <2>2
  <1>3. QED  BY <1>1, <1>2, InitTypeInv, NextTypeInv, PTL DEF Spec
=============================================================================
