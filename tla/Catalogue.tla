----------------------------- MODULE Catalogue -----------------------------
(***************************************************************************)
(* Concerts and what belongs to them: ConcertService on twelve tables with  *)
(* foreign keys.  Requests interleave, one action per statement.  Rows keep *)
(* the columns that another row, a constraint or a decision refers to.      *)
(***************************************************************************)
EXTENDS Access, FiniteSets

CONSTANTS
    Ids,            \* identifiers the sequence of each table can give
    Names,          \* names and addresses, as they are typed ...
    Canonical,      \* ... and as the hooks of the entities write them
    Codes,          \* access codes and ticket codes, in the order they are made
    Procs,          \* bound: requests served at a time
    Offers,         \* what is asked in a behaviour, and its bounds
    InitialRows, InitialLineup,
    Null, Gone, None

NoRefs == [c \in {} |-> "venue"]

\* The entities: columns, foreign keys (none of them cascades), the columns of
\* the unique constraint, and whether a hook formats the name.
VenueEntity        == [columns |-> {"name"}, refs |-> NoRefs, unique |-> {}, hook |-> FALSE]
ConcertGroupEntity == [columns |-> {"name"}, refs |-> NoRefs, unique |-> {"name"}, hook |-> FALSE]
ArtistEntity       == [columns |-> {"name"}, refs |-> NoRefs, unique |-> {}, hook |-> TRUE]
GenreEntity        == [columns |-> {"name"}, refs |-> NoRefs, unique |-> {"name"}, hook |-> TRUE]
MemberEntity       == [columns |-> {"name"}, refs |-> NoRefs, unique |-> {}, hook |-> TRUE]
RoleEntity         == [columns |-> {"name"}, refs |-> NoRefs, unique |-> {"name"}, hook |-> TRUE]
ConcertEntity ==
    [columns |-> {"name", "venue", "group", "over"}, hook |-> TRUE, unique |-> {},
     refs |-> [venue |-> "venue", group |-> "concertGroup"]]
PositionEntity ==
    [columns |-> {"concert", "member", "role", "code"}, hook |-> FALSE,
     unique |-> {"concert", "member", "role"},
     refs |-> [concert |-> "concert", member |-> "member", role |-> "role"]]
RuleEntity ==
    [columns |-> {"concert", "open"}, hook |-> FALSE, unique |-> {},
     refs |-> [concert |-> "concert"]]
RegisterEntity ==
    [columns |-> {"concert", "rule", "name", "used"}, hook |-> FALSE,
     unique |-> {"concert", "name"}, refs |-> [concert |-> "concert", rule |-> "rule"]]
CategoryEntity ==
    [columns |-> {"concert", "name"}, hook |-> FALSE, unique |-> {},
     refs |-> [concert |-> "concert"]]
TicketEntity ==
    [columns |-> {"concert", "category", "code", "used"}, hook |-> FALSE, unique |-> {},
     refs |-> [concert |-> "concert", category |-> "category"]]
\* Mutant: a registration may have several orders.
OrderEntityMany ==
    [columns |-> {"register"}, hook |-> FALSE, unique |-> {},
     refs |-> [register |-> "register"]]

OrderEntity ==
    [columns |-> {"register"}, hook |-> FALSE, unique |-> {"register"},
     refs |-> [register |-> "register"]]
OrderLineEntity ==
    [columns |-> {"order", "category"}, hook |-> FALSE, unique |-> {},
     refs |-> [order |-> "order", category |-> "category"]]
OrderTicketEntity ==
    [columns |-> {"order", "ticket"}, hook |-> FALSE, unique |-> {},
     refs |-> [order |-> "order", ticket |-> "ticket"]]

Entities ==
    [venue |-> VenueEntity, concertGroup |-> ConcertGroupEntity, concert |-> ConcertEntity,
     artist |-> ArtistEntity, genre |-> GenreEntity, member |-> MemberEntity,
     role |-> RoleEntity, position |-> PositionEntity, rule |-> RuleEntity,
     register |-> RegisterEntity, category |-> CategoryEntity, ticket |-> TicketEntity,
     order |-> OrderEntity, orderLine |-> OrderLineEntity, orderTicket |-> OrderTicketEntity]
Kinds == DOMAIN Entities

ColumnType(c) ==
    CASE c \in {"used", "open", "over"} -> BOOLEAN
      [] c = "name" -> Names
      [] c = "code" -> Codes
      [] OTHER      -> Ids \cup {Null}

IsRow(k, row) ==
    \/ row = Gone
    \/ /\ row = [c \in Entities[k].columns |-> row[c]]
       /\ \A c \in DOMAIN row : row[c] \in ColumnType(c)

VARIABLES
    rows,       \* the tables
    lineup,     \* concert_artist: the artists of each concert
    born,       \* identifiers the sequences have given
    made,       \* codes made so far
    badges,     \* badges mailed: position, concert and code
    pc,         \* next statement of each request; a handler before its first
    req,        \* the request
    entity,     \* concert, line-up and artists as assignArtistToConcert read them
    diff,       \* what save() will write
    offered,    \* the requests of this behaviour
    used        \* requests and faults so far

tableVars   == <<rows, lineup, born, made>>
mailVars    == <<badges>>
requestVars == <<req, entity, diff>>
catalogueVars == <<tableVars, mailVars, pc, requestVars, offered, used>>

NoEntity == [concert |-> Gone, lineup |-> {}, artists |-> [a \in Ids |-> Gone]]
NoDiff   == [insert |-> FALSE, revive |-> {}, columns |-> {}, names |-> {}, add |-> {},
             remove |-> {}]

-----------------------------------------------------------------------------
\* Which route a handler serves.  The routes of tickets and registers have
\* handlers of other names than the catalogue's.
Route(h) ==
    CASE h \in DOMAIN ConcertRoutes -> ConcertRoutes[h]
      [] h \in DOMAIN ArtistRoutes -> ArtistRoutes[h]
      [] h \in DOMAIN MemberRoutes -> MemberRoutes[h]
      [] h \in DOMAIN PositionRoutes -> PositionRoutes[h]
      [] h \in DOMAIN GenreRoutes -> GenreRoutes[h]
      [] h \in DOMAIN VenueRoutes -> VenueRoutes[h]
      [] h \in DOMAIN GroupRoutes -> GroupRoutes[h]
      [] h \in DOMAIN RoleRoutes -> RoleRoutes[h]
      [] h \in DOMAIN RuleRoutes -> RuleRoutes[h]
      [] h \in DOMAIN TicketRoutes -> TicketRoutes[h]
      [] h \in DOMAIN RegisterRoutes -> RegisterRoutes[h]
      [] h \in DOMAIN OrderRoutes -> OrderRoutes[h]
      [] h \in DOMAIN ProfileRoutes -> ProfileRoutes[h]
      [] OTHER -> MailRoutes[h]

GoTo(p, step) == pc' = [pc EXCEPT ![p] = step]

\* The request is answered, or fails with an error that is answered.
Answer(p) ==
    /\ pc' = [pc EXCEPT ![p] = "idle"]
    /\ req' = [req EXCEPT ![p] = None]
    /\ entity' = [entity EXCEPT ![p] = NoEntity]
    /\ diff' = [diff EXCEPT ![p] = NoDiff]

\* A request that the guards admit arrives.
Start(p, r) ==
    /\ pc[p] = "idle"
    /\ used.requests < offered.count
    /\ RoleAllowed(Route(r.handler), r.by)
    /\ req' = [req EXCEPT ![p] = r]
    /\ GoTo(p, r.handler)
    /\ used' = [used EXCEPT !.requests = @ + 1]
    /\ UNCHANGED <<tableVars, mailVars, entity, diff, offered>>

\* The process ends, and with it every request.
Crash ==
    /\ used.faults < offered.faults
    /\ used' = [used EXCEPT !.faults = @ + 1]
    /\ pc' = [p \in Procs |-> "idle"]
    /\ req' = [p \in Procs |-> None]
    /\ entity' = [p \in Procs |-> NoEntity]
    /\ diff' = [p \in Procs |-> NoDiff]
    /\ UNCHANGED <<tableVars, mailVars, offered>>

-----------------------------------------------------------------------------
(* Statements                                                                *)

FoundIn(tables, k, i) == i # Null /\ tables[k][i] # Gone
Found(k, i) == FoundIn(rows, k, i)

RefsFoundIn(tables, k, row) ==
    \A c \in DOMAIN Entities[k].refs :
        row[c] = Null \/ FoundIn(tables, Entities[k].refs[c], row[c])
RefsFound(k, row) == RefsFoundIn(rows, k, row)

Unique(k, i, row) ==
    \A j \in Ids \ {i} :
        rows[k][j] # Gone =>
            \E c \in Entities[k].unique : row[c] = Null \/ row[c] # rows[k][j][c]

Allowed(k, i, row) ==
    /\ RefsFound(k, row)
    /\ Entities[k].unique # {} => Unique(k, i, row)

Held(k, i) ==
    \E l \in Kinds : \E c \in DOMAIN Entities[l].refs, j \in Ids :
        Entities[l].refs[c] = k /\ rows[l][j] # Gone /\ rows[l][j][c] = i

\* BeforeInsert and BeforeUpdate run for entities, not for update().
Formatted(k, row) ==
    IF Entities[k].hook THEN [row EXCEPT !.name = Canonical[row.name]] ELSE row

\* Mutant: an identifier whose row was deleted is given again.
NextIdReused(k) == CHOOSE i \in Ids : rows[k][i] = Gone

NextId(k) == CHOOSE i \in Ids : i \notin born[k]
NextCode == CHOOSE c \in Codes : c \notin made

\* An INSERT, and the answer.  The sequence gives an identifier in any case.
Inserts(p, k, row) ==
    LET i == NextId(k)
    IN  /\ ~(Ids \subseteq born[k])
        /\ rows' = IF Allowed(k, i, row) THEN [rows EXCEPT ![k][i] = row] ELSE rows
        /\ born' = [born EXCEPT ![k] = @ \cup {i}]
        /\ Answer(p)
        /\ UNCHANGED <<lineup, mailVars, offered, used>>

Creates(p, h, k) ==
    /\ pc[p] = h
    /\ Inserts(p, k, Formatted(k, req[p].body))
    /\ UNCHANGED made

Patch(row, body) == [c \in DOMAIN row |-> IF c \in DOMAIN body THEN body[c] ELSE row[c]]

\* update() writes the columns of the body as they are.
Updates(p, h, k) ==
    LET i   == req[p].id
        new == Patch(rows[k][i], req[p].body)
    IN  /\ pc[p] = h
        /\ rows' = IF rows[k][i] # Gone /\ Allowed(k, i, new)
                      THEN [rows EXCEPT ![k][i] = new] ELSE rows
        /\ Answer(p)
        /\ UNCHANGED <<lineup, born, made, mailVars, offered, used>>

\* Mutant: rows of concert_artist stay when their artist goes.
DeletesOnly(p, h, k) ==
    LET i == req[p].id
        gone == ~Held(k, i)
    IN  /\ pc[p] = h
        /\ rows' = IF gone THEN [rows EXCEPT ![k][i] = Gone] ELSE rows
        /\ lineup' = IF gone /\ k = "concert" THEN [lineup EXCEPT ![i] = {}] ELSE lineup
        /\ Answer(p)
        /\ UNCHANGED <<born, made, mailVars, offered, used>>

\* delete() fails where a row refers to this one; rows of concert_artist go.
Deletes(p, h, k) ==
    LET i == req[p].id
        gone == ~Held(k, i)
    IN  /\ pc[p] = h
        /\ rows' = IF gone THEN [rows EXCEPT ![k][i] = Gone] ELSE rows
        /\ lineup' = CASE gone /\ k = "concert" -> [lineup EXCEPT ![i] = {}]
                       [] gone /\ k = "artist" -> [c \in Ids |-> lineup[c] \ {i}]
                       [] OTHER -> lineup
        /\ Answer(p)
        /\ UNCHANGED <<born, made, mailVars, offered, used>>

-----------------------------------------------------------------------------
(* The operations on single rows                                             *)

Genres(p) == \/ Creates(p, "createGenre", "genre")
             \/ Updates(p, "updateGenre", "genre")
             \/ Deletes(p, "deleteGenre", "genre")

CreateConcert(p) == Creates(p, "createConcert", "concert")
ChangeConcert(p) == \/ Updates(p, "updateConcert", "concert")
                    \/ Deletes(p, "deleteConcert", "concert")

Groups(p) == \/ Creates(p, "createConcertGroup", "concertGroup")
             \/ Updates(p, "updateConcertGroup", "concertGroup")
             \/ Deletes(p, "deleteConcertGroup", "concertGroup")

CreateMember(p) == Creates(p, "createConcertMember", "member")
ChangeMember(p) == \/ Updates(p, "updateConcertMember", "member")
                   \/ Deletes(p, "deleteConcertMember", "member")

\* Mutant: the body may lack the code.
CreatePositionUncoded(p) == Creates(p, "createConcertPosition", "position")

\* createConcertRole makes an access code, whatever the body says.
CreatePosition(p) ==
    /\ pc[p] = "createConcertPosition"
    /\ ~(Codes \subseteq made)
    /\ Inserts(p, "position", [req[p].body EXCEPT !.code = NextCode])
    /\ made' = made \cup {NextCode}

ChangePosition(p) == \/ Updates(p, "updateConcertPosition", "position")
                     \/ Deletes(p, "deleteConcertPosition", "position")

CreateRole(p) == Creates(p, "createRole", "role")
ChangeRole(p) == \/ Updates(p, "updateRole", "role")
                 \/ Deletes(p, "deleteRole", "role")

Venues(p) == \/ Creates(p, "createVenue", "venue")
             \/ Updates(p, "updateVenue", "venue")
             \/ Deletes(p, "deleteVenue", "venue")

CreateArtist(p) == Creates(p, "createArtist", "artist")
ChangeArtist(p) == \/ Updates(p, "updateArtist", "artist")
                   \/ Deletes(p, "deleteArtist", "artist")

CreateRule(p) == Creates(p, "createRegistrationRule", "rule")
ChangeRule(p) == \/ Updates(p, "updateRegistrationRule", "rule")
                 \/ Deletes(p, "deleteRegistrationRule", "rule")

-----------------------------------------------------------------------------
(* Badges                                                                    *)

\* sendConcertRoleBudget mails a badge with the code of the position.
SendBadge(p) ==
    LET i == req[p].id
        c == req[p].concert
    IN  /\ pc[p] = "sendEmail"
        /\ badges' = IF rows["position"][i] # Gone /\ rows["position"][i].concert = c
                        THEN badges \cup {[id |-> i, concert |-> c,
                                           code |-> rows["position"][i].code]}
                        ELSE badges
        /\ Answer(p)
        /\ UNCHANGED <<tableVars, offered, used>>

\* checkConcertRole: the signature is not looked at, and nothing is written.
AcceptsBadge(badge) ==
    LET row == rows["position"][badge.id]
    IN  /\ row # Gone
        /\ row.concert = badge.concert
        /\ row.code = badge.code
        /\ ~rows["concert"][badge.concert].over

-----------------------------------------------------------------------------
(* assignArtistToConcert and removeArtistFromConcert                         *)

Lineups == {"assignArtistToConcert", "removeArtistFromConcert"}

\* The concert with its artists ...
ReadConcert(p) ==
    LET c == req[p].concert
    IN  /\ pc[p] \in Lineups
        /\ IF rows["concert"][c] = Gone
              THEN Answer(p)
              ELSE /\ entity' = [entity EXCEPT ![p] =
                          [concert |-> rows["concert"][c], lineup |-> lineup[c],
                           artists |-> [a \in Ids |->
                              IF a \in lineup[c] THEN rows["artist"][a] ELSE Gone]]]
                   /\ GoTo(p, "readArtist")
                   /\ UNCHANGED <<req, diff>>
        /\ UNCHANGED <<tableVars, mailVars, offered, used>>

\* Mutant: the array in memory is replaced by one of the artist alone.
ReadArtistAlone(p) ==
    LET artist == req[p].id
    IN  /\ pc[p] = "readArtist"
        /\ IF rows["artist"][artist] = Gone
              THEN Answer(p)
              ELSE /\ entity' = [entity EXCEPT ![p].artists =
                          [x \in Ids |-> IF x = artist THEN rows["artist"][artist] ELSE Gone]]
                   /\ GoTo(p, "diff")
                   /\ UNCHANGED <<req, diff>>
        /\ UNCHANGED <<tableVars, mailVars, offered, used>>

\* ... then the artist.  An assignment puts it into the array in memory.  A
\* removal filters the array by artist.artist_id !== artist_id, where the
\* second is the text of the path: never equal to a number, it keeps everybody.
ReadArtist(p) ==
    LET artist == req[p].id
    IN  /\ pc[p] = "readArtist"
        /\ IF rows["artist"][artist] = Gone
              THEN Answer(p)
              ELSE /\ entity' = [entity EXCEPT ![p].artists =
                          IF req[p].handler = "assignArtistToConcert"
                             THEN [@ EXCEPT ![artist] = rows["artist"][artist]] ELSE @]
                   /\ GoTo(p, "diff")
                   /\ UNCHANGED <<req, diff>>
        /\ UNCHANGED <<tableVars, mailVars, offered, used>>

\* save() selects the rows again and notes what differs from the objects, those
\* of the artists too (the relation cascades).  What is gone it will insert.
InMemory(p) == {a \in Ids : entity[p].artists[a] # Gone}

SelectForSave(p) ==
    LET c == req[p].concert
        row == rows["concert"][c]
        stale == {col \in Entities["concert"].columns : row # Gone /\ row[col] # entity[p].concert[col]}
    IN  /\ pc[p] = "diff"
        /\ diff' = [diff EXCEPT ![p] =
              [insert  |-> row = Gone,
               revive  |-> {a \in InMemory(p) : rows["artist"][a] = Gone},
               columns |-> stale \cup (IF stale = {} THEN {} ELSE {"name"}),
               names   |-> {a \in InMemory(p) : rows["artist"][a] \notin {Gone, entity[p].artists[a]}},
               add     |-> InMemory(p) \ lineup[c],
               remove  |-> lineup[c] \ InMemory(p)]]
        /\ GoTo(p, "save")
        /\ UNCHANGED <<tableVars, mailVars, req, entity, offered, used>>

\* The transaction: rows of the two tables, then of concert_artist.
SavedConcert(p) ==
    LET row == rows["concert"][req[p].concert]
        new == Formatted("concert", entity[p].concert)
    IN  IF diff[p].insert THEN new
        ELSE IF row = Gone THEN Gone
        ELSE [col \in DOMAIN row |-> IF col \in diff[p].columns THEN new[col] ELSE row[col]]

SavedArtists(p) ==
    [a \in Ids |->
        IF a \in diff[p].revive \/ (a \in diff[p].names /\ rows["artist"][a] # Gone)
           THEN Formatted("artist", entity[p].artists[a]) ELSE rows["artist"][a]]

\* A key that is there already, or a reference to what is not.
SaveBreaks(p) ==
    LET c == req[p].concert
    IN  \/ diff[p].insert /\ rows["concert"][c] # Gone
        \/ \E a \in diff[p].revive : rows["artist"][a] # Gone
        \/ SavedConcert(p) # Gone /\ ~RefsFound("concert", SavedConcert(p))
        \/ diff[p].add \cap lineup[c] # {}
        \/ diff[p].add # {} /\ SavedConcert(p) = Gone
        \/ \E a \in diff[p].add : SavedArtists(p)[a] = Gone

Save(p) ==
    LET c == req[p].concert
    IN  /\ pc[p] = "save"
        /\ IF SaveBreaks(p)
              THEN UNCHANGED <<rows, lineup>>
              ELSE /\ rows' = [rows EXCEPT !["concert"][c] = SavedConcert(p),
                                           !["artist"] = SavedArtists(p)]
                   /\ lineup' = [lineup EXCEPT ![c] = (@ \ diff[p].remove) \cup diff[p].add]
        /\ Answer(p)
        /\ UNCHANGED <<born, made, mailVars, offered, used>>

-----------------------------------------------------------------------------
CatalogueInit ==
    /\ rows = InitialRows
    /\ lineup = InitialLineup
    /\ born = [k \in Kinds |-> {i \in Ids : rows[k][i] # Gone}]
    /\ made = {c \in Codes : \E k \in {"position", "ticket"}, i \in Ids :
                                 rows[k][i] # Gone /\ rows[k][i].code = c}
    /\ badges = {}
    /\ pc = [p \in Procs |-> "idle"]
    /\ req = [p \in Procs |-> None]
    /\ entity = [p \in Procs |-> NoEntity]
    /\ diff = [p \in Procs |-> NoDiff]
    /\ offered \in Offers
    /\ used = [requests |-> 0, faults |-> 0]

CatalogueStep(p) ==
    \/ Genres(p) \/ Groups(p) \/ Venues(p)
    \/ CreateConcert(p) \/ ChangeConcert(p) \/ CreateMember(p) \/ ChangeMember(p)
    \/ CreatePosition(p) \/ ChangePosition(p) \/ CreateRole(p) \/ ChangeRole(p)
    \/ CreateArtist(p) \/ ChangeArtist(p) \/ CreateRule(p) \/ ChangeRule(p)
    \/ SendBadge(p)
    \/ ReadConcert(p) \/ ReadArtist(p) \/ SelectForSave(p) \/ Save(p)

-----------------------------------------------------------------------------
(* Properties                                                                *)

ReferencesHoldIn(tables, artists) ==
    /\ \A k \in Kinds, i \in Ids : tables[k][i] # Gone => RefsFoundIn(tables, k, tables[k][i])
    /\ \A c \in Ids : artists[c] # {} =>
          tables["concert"][c] # Gone /\ \A a \in artists[c] : tables["artist"][a] # Gone

\* Every reference is to a row that is there, whatever deletions overlap with
\* insertions, updates and assignments that bring rows back.
ReferencesHold == ReferencesHoldIn(rows, lineup)

\* What was deleted comes back only by the save() of an assignment or a removal
\* that had read it before the deletion; never under the identifier of a new row.
RowsComeBackOnlyByOverlap ==
    [][\A k \in Kinds : \A i \in born[k] :
          rows[k][i] = Gone /\ rows'[k][i] # Gone =>
              \E p \in Procs :
                  /\ pc[p] = "save" /\ pc'[p] = "idle"
                  /\ \/ k = "concert" /\ i = req[p].concert
                     \/ k = "artist" /\ entity[p].artists[i] # Gone]_<<rows, pc>>

\* An artist who is still there leaves a concert that is still there only by an
\* assignment, or a removal of whomever, that had read the line-up before the
\* artist entered it: a removal takes away what it did not see, and nobody else.
ArtistsLeaveOnlyByOverlap ==
    [][\A c \in Ids : \A a \in lineup[c] \ lineup'[c] :
          (rows'["concert"][c] # Gone /\ rows'["artist"][a] # Gone) =>
              \E p \in Procs :
                  pc[p] = "save" /\ req[p].concert = c /\ a \notin entity[p].lineup]_<<lineup, rows>>
=============================================================================
