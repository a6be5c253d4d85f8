------------------------------- MODULE Access -------------------------------
(***************************************************************************)
(* Who may call what: JwtAuthGuard and RolesGuard, the two guards the       *)
(* application applies to every HTTP route, and what the decorators of the  *)
(* controllers ask of them.  A route is named by its handler.               *)
(***************************************************************************)
EXTENDS Naturals

RoleNames ==
    {"ADMIN", "EVENT_ORGANIZER", "SUPPORT_STAFF", "USER", "GUEST", "TICKET_VENDOR",
     "VENDOR", "TICKET_VERIFIER", "SECURITY_GUARD"}

Anyone       == [public |-> TRUE,  roles |-> {}]
SignedIn     == [public |-> FALSE, roles |-> {}]
Only(roles)  == [public |-> FALSE, roles |-> roles]
Admin        == Only({"ADMIN"})
Staff        == Only({"ADMIN", "SUPPORT_STAFF"})
Organizers   == Only({"ADMIN", "SUPPORT_STAFF", "EVENT_ORGANIZER"})
TicketStaff  == Only({"ADMIN", "SUPPORT_STAFF", "TICKET_VERIFIER"})
BadgeReaders == Only({"ADMIN", "SUPPORT_STAFF", "EVENT_ORGANIZER", "TICKET_VERIFIER",
                      "SECURITY_GUARD"})
Customers    == Only({"USER"})

-----------------------------------------------------------------------------
(* The controllers; a decorator of a handler replaces that of its class.    *)

AuthRoutes ==
    [register |-> Anyone, login |-> Anyone, loginM2FA |-> Anyone, logout |-> SignedIn,
     refreshToken |-> Anyone, getProfile |-> SignedIn, getPermissions |-> Staff,
     createPermissions |-> Staff, updatePermissions |-> Staff, deletePermissions |-> Staff,
     assignPermissionToUser |-> Staff, getRoles |-> Staff, assignRoleToUser |-> Staff,
     createRoles |-> Admin, updateRoles |-> Admin, deleteRoles |-> Admin]

MailRoutes ==
    [emailConfirmation |-> Anyone, confirmEmail |-> Anyone, passwordReset |-> Anyone,
     passwordChange |-> Anyone, checkConcertMember |-> TicketStaff]

ProfileRoutes ==
    [getUserPicture |-> Staff, getProfilePicture |-> SignedIn, uploadFile |-> SignedIn,
     deleteProfilePicture |-> SignedIn, updateUserAccount |-> SignedIn,
     deactivateCurrentUserAccount |-> SignedIn, getUserAccount |-> SignedIn,
     getUserOrders |-> Customers, getUserOrderTickets |-> Customers,
     getUserOrderTicket |-> Customers, getUserTickets |-> Customers]

UserRoutes ==
    [h \in {"getUsers", "getUser", "createUser", "updateUser", "deleteUser",
            "deleteUserLoginData", "getUserLoginData", "createUserLoginData",
            "updateUserLoginData"} |-> Staff]

ConcertRoutes ==
    [findAllConcertsForAdmin |-> Organizers, findConcertByIdForAdmin |-> Organizers,
     findAllConcerts |-> Anyone, findConcertById |-> Anyone, createConcert |-> Organizers,
     updateConcert |-> Organizers, deleteConcert |-> Organizers,
     uploadConcertImages |-> Organizers, deleteConcertImages |-> Organizers,
     getConcertImages |-> Anyone]

ArtistRoutes ==
    [findAllArtists |-> Anyone, findArtistById |-> Anyone, createArtist |-> Organizers,
     updateArtist |-> Organizers, deleteArtist |-> Organizers,
     assignArtistToConcert |-> Organizers, removeArtistFromConcert |-> Organizers,
     uploadArtistPicture |-> Organizers, deleteArtistPicture |-> Organizers,
     getArtistPicture |-> Anyone]

MemberRoutes ==
    [findAllConcertMembers |-> Organizers, findConcertMemberById |-> BadgeReaders,
     createConcertMember |-> Organizers, updateConcertMember |-> Organizers,
     deleteConcertMember |-> Organizers, uploadConcertMember |-> Organizers,
     deleteConcertMemberPicture |-> Organizers, getConcertMemberPicture |-> Organizers]

PositionRoutes ==
    [h \in {"findAllConcertPositions", "sendEmail", "createConcertPosition",
            "findConcertPositionById", "updateConcertPosition", "deleteConcertPosition"}
        |-> Organizers]

GenreRoutes ==
    [findAllGenres |-> Anyone, findGenreById |-> Anyone, createGenre |-> Organizers,
     updateGenre |-> Organizers, deleteGenre |-> Organizers]

VenueRoutes ==
    [findAllVenues |-> Organizers, findVenueById |-> Anyone, createVenue |-> Organizers,
     updateVenue |-> Organizers, deleteVenue |-> Organizers]

GroupRoutes ==
    [h \in {"findAllConcertGroups", "findConcertGroupById", "createConcertGroup",
            "updateConcertGroup", "deleteConcertGroup"} |-> Organizers]

RoleRoutes ==
    [h \in {"findAllRoles", "findRoleById", "createRole", "updateRole", "deleteRole"}
        |-> Organizers]

RuleRoutes ==
    [h \in {"findAllRegistrationRules", "findRegistrationRuleById", "createRegistrationRule",
            "updateRegistrationRule", "deleteRegistrationRule"} |-> Organizers]

TicketRoutes ==
    [getTickets |-> Staff, getTicketCategories |-> Staff, getTicket |-> Anyone,
     createTicket |-> Staff, updateTicket |-> Staff, deleteTicket |-> Staff,
     convertTicketToQRCode |-> Staff, createTicketCategory |-> Staff,
     getTicketCategory |-> Anyone, updateTicketCategory |-> Staff,
     deleteTicketCategory |-> Staff, scanTicket |-> TicketStaff]

OrderRoutes ==
    [getOrders |-> Staff, createOrder |-> SignedIn, createOrderForAdmin |-> Staff,
     getOrderById |-> Staff, getOrderTickets |-> Staff, sendOrderTicketsEmail |-> Staff]

RegisterRoutes ==
    [getRegisters |-> Staff, createRegister |-> Anyone, getRegisterById |-> Anyone,
     deleteRegister |-> Anyone, createOrder |-> Anyone]

-----------------------------------------------------------------------------
(* The guards.  A user is what JwtStrategy.validate returns, or NoUser.      *)

\* JwtAuthGuard: the user is looked for only where the route is not public.
NeedsUser(route) == ~route.public

\* RolesGuard: no role asked for admits every user.  No route uses the
\* decorators LockedRoute, Permission and ExcludeRoles.
RoleAllowed(route, role) ==
    \/ route.public
    \/ route.roles = {}
    \/ role \in route.roles
=============================================================================
