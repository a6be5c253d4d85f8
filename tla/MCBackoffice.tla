---------------------------- MODULE MCBackoffice ----------------------------
(* Small instances of Backoffice for TLC: each workload asks one question.    *)
EXTENDS Backoffice, TLC

CONSTANTS a, A, b, k1, k2, k3, k4, k5, k6, k7, p1, p2

Numbers == 1..6
Formats == a :> a @@ A :> a @@ b :> b

Table(rs) == [i \in Ids |-> IF i \in DOMAIN rs THEN rs[i] ELSE Gone]
Named(n) == [name |-> n]
Tables0 ==
    [venue |-> Table(<<Named(a), Named(b)>>), concertGroup |-> Table(<<Named(a)>>),
     concert |-> Table(<<[name |-> a, venue |-> 1, group |-> 1, over |-> FALSE],
                         [name |-> b, venue |-> 1, group |-> Null, over |-> FALSE]>>),
     artist |-> Table(<<Named(a), Named(b), Named(b)>>), genre |-> Table(<<Named(a)>>),
     member |-> Table(<<Named(a)>>), role |-> Table(<<Named(a)>>),
     position |-> Table(<<[concert |-> 1, member |-> 1, role |-> 1, code |-> k1]>>),
     rule |-> Table(<<[concert |-> 1, open |-> TRUE]>>), register |-> Table(<<>>),
     category |-> Table(<<[concert |-> 1, name |-> a]>>),
     ticket |-> Table(<<[concert |-> 1, category |-> 1, code |-> k2, used |-> FALSE],
                        [concert |-> 1, category |-> 1, code |-> k3, used |-> FALSE]>>),
     order |-> Table(<<[register |-> Null]>>),
     orderLine |-> Table(<<[order |-> 1, category |-> 1]>>),
     orderTicket |-> Table(<<[order |-> 1, ticket |-> 1]>>)]
Lineup0 == [c \in Ids |-> IF c = 1 THEN {1} ELSE {}]

Ask(h, by, id, concert, body) ==
    [handler |-> h, by |-> by, id |-> id, concert |-> concert, body |-> body,
     files |-> 0, fileIds |-> <<>>, right |-> FALSE, category |-> Null]
New(h, body) == Ask(h, "ADMIN", Null, Null, body)
Set(h, id, body) == Ask(h, "EVENT_ORGANIZER", id, Null, body)
Drop(h, id) == Ask(h, "SUPPORT_STAFF", id, Null, <<>>)
Upload(h, id, n) == [Ask(h, "ADMIN", id, Null, <<>>) EXCEPT !.files = n]
Images(id, ids) == [Ask("deleteConcertImages", "ADMIN", id, Null, <<>>) EXCEPT !.fileIds = ids]
Order(id, right) ==
    [Ask("createOrder", "GUEST", id, 1, <<>>) EXCEPT !.right = right, !.category = 1]
Assign(artist, c) == Ask("assignArtistToConcert", "ADMIN", artist, c, <<>>)
Remove(artist, c) == Ask("removeArtistFromConcert", "ADMIN", artist, c, <<>>)

W(requests, count, faults) ==
    [requests |-> requests, count |-> count, faults |-> faults, listing |-> None, walk |-> None]

Assignments ==
    W({Assign(2, 1), Assign(2, 2), Remove(1, 1), Drop("deleteArtist", 2), Drop("deleteArtist", 1),
       Drop("deleteConcert", 2), Set("updateArtist", 1, Named(A)),
       Set("updateConcert", 1, [venue |-> 2]), Drop("deleteVenue", 2)}, 4, 1)
Sections ==
    W({New("createVenue", Named(A)), Set("updateVenue", 2, Named(A)), Drop("deleteVenue", 1),
       New("createConcertGroup", Named(a)), Set("updateConcertGroup", 1, Named(b)),
       Drop("deleteConcertGroup", 1), New("createGenre", Named(A)),
       Set("updateGenre", 1, Named(A)), Drop("deleteGenre", 1),
       New("createConcert", [name |-> A, venue |-> 2, group |-> Null, over |-> FALSE]),
       Set("updateConcert", 2, [venue |-> 2]), Drop("deleteConcert", 1), Drop("deleteConcert", 2),
       New("createArtist", Named(A)), Set("updateArtist", 2, Named(A)), Drop("deleteArtist", 1)},
      3, 0)
Crew ==
    W({New("createConcertMember", Named(A)), Set("updateConcertMember", 1, Named(b)),
       Drop("deleteConcertMember", 2), New("createRole", Named(b)),
       Set("updateRole", 1, Named(b)), Drop("deleteRole", 2),
       New("createConcertPosition", [concert |-> 1, member |-> 2, role |-> 1, code |-> Null]),
       New("createConcertPosition", [concert |-> 2, member |-> 1, role |-> 2, code |-> Null]),
       Set("updateConcertPosition", 1, [member |-> 2]), Drop("deleteConcertPosition", 1),
       New("createRegistrationRule", [concert |-> 2, open |-> TRUE]),
       Set("updateRegistrationRule", 1, [concert |-> 2]), Drop("deleteRegistrationRule", 1),
       Drop("deleteConcertMember", 1)}, 3, 0)
Badges ==
    W({Ask("sendEmail", "ADMIN", 1, 1, <<>>), Set("updateConcertPosition", 1, [code |-> k4]),
       Drop("deleteConcertPosition", 1), Set("updateConcert", 1, [over |-> TRUE]),
       Set("updateConcert", 1, [over |-> FALSE]), Assign(2, 1)}, 4, 0)
Pictures ==
    W({Upload("uploadArtistPicture", 1, 1), Drop("deleteArtistPicture", 1),
       Drop("deleteArtist", 1)}, 4, 1)
Gallery == W({Upload("uploadConcertImages", 1, 3), Images(1, <<2, 1>>), Images(1, <<2, 2>>)}, 3, 1)
Portraits ==
    W({Upload("uploadConcertMember", 1, 1), Drop("deleteConcertMemberPicture", 1),
       Upload("uploadFile", 1, 1), Drop("deleteProfilePicture", 1)}, 3, 0)
Registering ==
    W({New("createRegister", [concert |-> 1, rule |-> 1, name |-> a, used |-> FALSE]),
       Drop("deleteRegister", 1), Order(1, FALSE), Order(2, FALSE), Order(1, TRUE),
       Set("updateRegistrationRule", 1, [open |-> FALSE]),
       Drop("deleteTicketCategory", 1)}, 5, 1)
Tickets ==
    W({New("createTicket", [concert |-> 1, category |-> 1, code |-> Null, used |-> FALSE]),
       Drop("updateTicket", 1), [Drop("updateTicket", 1) EXCEPT !.body = [used |-> TRUE]],
       [Drop("updateTicket", 1) EXCEPT !.body = [code |-> k4]],
       Drop("deleteTicket", 1), Drop("deleteTicket", 2),
       New("createTicketCategory", [concert |-> 1, name |-> A]),
       Drop("deleteTicketCategory", 1), Drop("sendOrderTicketsEmail", 1)}, 3, 0)
Filtering(l) == [W({}, 0, 0) EXCEPT !.listing = l]
Paging ==
    [W({New("createArtist", Named(A)), Drop("deleteArtist", 1), Drop("deleteArtist", 2),
        Assign(1, 2)}, 3, 0) EXCEPT !.walk = "artist"]

AllOffers ==
    {Assignments, Sections, Crew, Badges, Pictures, Gallery, Portraits, Registering, Tickets, Paging}
    \cup {Filtering(l) : l \in DOMAIN Listing}
=============================================================================
