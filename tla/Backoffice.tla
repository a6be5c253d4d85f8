----------------------------- MODULE Backoffice -----------------------------
(***************************************************************************)
(* The administration of the site: the catalogue, its pictures, the         *)
(* registrations and tickets and the listings, on the same tables and       *)
(* served by the same process.                                              *)
(***************************************************************************)
EXTENDS Media, Registration, Listings

-----------------------------------------------------------------------------
(* What is asked: the DTOs of the handlers, and the path parameters.         *)

Creations ==
    [createGenre |-> "genre", createConcertGroup |-> "concertGroup", createVenue |-> "venue",
     createConcert |-> "concert", createConcertMember |-> "member", createRole |-> "role",
     createConcertPosition |-> "position", createArtist |-> "artist",
     createRegistrationRule |-> "rule", createRegister |-> "register",
     createTicket |-> "ticket", createTicketCategory |-> "category"]
Changes ==
    [updateGenre |-> "genre", updateConcertGroup |-> "concertGroup", updateVenue |-> "venue",
     updateConcert |-> "concert", updateConcertMember |-> "member", updateRole |-> "role",
     updateConcertPosition |-> "position", updateArtist |-> "artist",
     updateRegistrationRule |-> "rule", updateTicket |-> "ticket"]
Deletions ==
    [deleteGenre |-> "genre", deleteConcertGroup |-> "concertGroup", deleteVenue |-> "venue",
     deleteConcert |-> "concert", deleteConcertMember |-> "member", deleteRole |-> "role",
     deleteConcertPosition |-> "position", deleteArtist |-> "artist",
     deleteRegistrationRule |-> "rule", deleteRegister |-> "register",
     deleteTicket |-> "ticket", deleteTicketCategory |-> "category"]
Mails == {"sendEmail", "sendOrderTicketsEmail"}
Handlers ==
    DOMAIN Creations \cup DOMAIN Changes \cup DOMAIN Deletions \cup DOMAIN Uploads
    \cup DOMAIN Removals \cup Lineups \cup Mails \cup {"createOrder"}

\* The columns of a new row; the service makes the code.
IsNew(k, body) ==
    /\ body = [c \in Entities[k].columns |-> body[c]]
    /\ \A c \in DOMAIN body \ {"code"} : body[c] \in ColumnType(c)

\* Any columns of the table: the pipe has no whitelist, so that a body may name
\* those its DTO leaves out.
IsChange(k, body) ==
    \A c \in DOMAIN body : c \in Entities[k].columns /\ body[c] \in ColumnType(c)

IsRequest(r) ==
    /\ r.handler \in Handlers
    /\ r.handler \in DOMAIN Creations => IsNew(Creations[r.handler], r.body)
    /\ r.handler = "createRegister" => r.body.concert # Null /\ r.body.used = FALSE
    /\ r.handler \in DOMAIN Changes => IsChange(Changes[r.handler], r.body)
    /\ r.handler \notin DOMAIN Creations => r.id \in Ids
    /\ r.handler \in Lineups \cup {"sendEmail"} => r.concert \in Ids
    /\ r.handler = "createOrder" => r.category \in Ids
    /\ r.handler \in DOMAIN Uploads => r.files \in Nat \ {0}
    /\ r.handler = "deleteConcertImages" => r.fileIds \in Seq(Keys) \ {<<>>}

-----------------------------------------------------------------------------
(* The constants                                                             *)

ASSUME BoundsAssumption ==
    /\ IsFiniteSet(Procs) /\ IsFiniteSet(Ids) /\ Ids \subseteq Nat
    /\ MaxKeys \in Nat /\ Limit \in Nat \ {0}
    /\ \A n \in Names : Canonical[n] \in Names

Values == Names \cup Codes \cup {Null} \cup Nat \cup BOOLEAN

\* What stands for nothing is no identifier, row, owner, table or listing.
ASSUME NothingAssumption ==
    /\ Null \notin Nat \cup Names
    /\ \A k \in Kinds : Gone \notin [Entities[k].columns -> Values]
    /\ \A t \in {"artist", "member", "user", "concert"}, i \in Ids :
          Gone # [type |-> t, id |-> i]
    /\ None \notin Kinds \cup DOMAIN Listing

\* The tables at the start keep their constraints, and no order was made with a
\* registration yet.
ASSUME TablesAssumption ==
    /\ InitialRows = [k \in Kinds |-> [i \in Ids |-> InitialRows[k][i]]]
    /\ \A k \in Kinds, i \in Ids : IsRow(k, InitialRows[k][i])
    /\ InitialLineup \in [Ids -> SUBSET Ids]
    /\ ReferencesHoldIn(InitialRows, InitialLineup)
    /\ \A i \in Ids :
          /\ InitialRows["register"][i] = Gone
          /\ InitialRows["order"][i] # Gone => InitialRows["order"][i].register = Null
          /\ InitialRows["orderTicket"][i] # Gone => InitialRows["orderTicket"][i].ticket # Null

ASSUME OffersAssumption ==
    \A o \in Offers :
        /\ \A r \in o.requests : IsRequest(r)
        /\ o.listing \in DOMAIN Listing \cup {None}
        /\ o.walk \in Kinds \cup {None}

-----------------------------------------------------------------------------
backofficeVars == <<catalogueVars, mediaVars, registrationVars, listingVars>>

Init ==
    /\ CatalogueInit
    /\ MediaInit
    /\ RegistrationInit
    /\ ListingsInit(offered.listing, offered.walk)

Arrive(p) ==
    /\ \E r \in offered.requests : Start(p, r)
    /\ UNCHANGED <<mediaVars, registrationVars, listingVars>>

CatalogueAlone(p) ==
    CatalogueStep(p) /\ UNCHANGED <<mediaVars, registrationVars, listingVars>>

MediaAlone(p) ==
    /\ MediaStep(p)
    /\ UNCHANGED <<tableVars, mailVars, offered, used, registrationVars, listingVars>>

StoreFault(p) ==
    /\ used.faults < offered.faults
    /\ MediaFault(p)
    /\ used' = [used EXCEPT !.faults = @ + 1]
    /\ UNCHANGED <<tableVars, mailVars, offered, registrationVars, listingVars>>

RegistrationAlone(p) == RegistrationStep(p) /\ UNCHANGED <<mediaVars, listingVars>>

ListingsAlone == ListingsStep /\ UNCHANGED <<catalogueVars, mediaVars, registrationVars>>

ProcessEnds == Crash /\ MediaCrash /\ UNCHANGED <<registrationVars, listingVars>>

\* Everything that was asked is answered.
Terminating ==
    /\ \A p \in Procs : pc[p] = "idle"
    /\ used.requests = offered.count
    /\ listing # None => Cardinality(DOMAIN query) = MaxFilters
    /\ walk.table # None => walk.done
    /\ UNCHANGED backofficeVars

Next ==
    \/ \E p \in Procs : Arrive(p) \/ CatalogueAlone(p) \/ MediaAlone(p) \/ StoreFault(p)
                        \/ RegistrationAlone(p)
    \/ ListingsAlone
    \/ ProcessEnds
    \/ Terminating

Spec == Init /\ [][Next]_backofficeVars

\* The tables hold rows of their types, and a request that is not served has
\* left nothing in memory.
TypeOK ==
    /\ \A k \in Kinds, i \in Ids : IsRow(k, rows[k][i])
    /\ \A c \in Ids : lineup[c] \subseteq Ids
    /\ \A k \in Kinds : born[k] \subseteq Ids
    /\ made \subseteq Codes
    /\ \A p \in Procs : pc[p] = "idle" =>
          req[p] = None /\ entity[p] = NoEntity /\ diff[p] = NoDiff /\ key[p] = Null /\ at[p] = 1
    /\ MediaTypeOK

-----------------------------------------------------------------------------
(* What was mailed                                                           *)

Asks(p, h, i, columns) ==
    pc[p] = h /\ req[p].id = i /\ DOMAIN req[p].body \cap columns # {}

\* A mailed ticket or badge that would be accepted stops being so only when its
\* row is deleted, when an update names its code, the concert of the position
\* or the end of the concert, or when an assignment writes back that the
\* concert was over when it read it; no other update, save or cascade.
CodesLapseOnlyByChange ==
    [][/\ \A m \in mailed : AcceptsTicket(m) /\ ~AcceptsTicket(m)' =>
             \E p \in Procs : \/ pc[p] = "deleteTicket" /\ req[p].id = m.id
                              \/ Asks(p, "updateTicket", m.id, {"code"})
       /\ \A badge \in badges : AcceptsBadge(badge) /\ ~AcceptsBadge(badge)' =>
             \E p \in Procs : \/ pc[p] = "deleteConcertPosition" /\ req[p].id = badge.id
                              \/ Asks(p, "updateConcertPosition", badge.id, {"code", "concert"})
                              \/ Asks(p, "updateConcert", badge.concert, {"over"})
                              \/ /\ pc[p] = "save" /\ req[p].concert = badge.concert
                                 /\ entity[p].concert.over]_rows
=============================================================================
