------------------------------ MODULE Listings ------------------------------
(***************************************************************************)
(* The listings: which column each query parameter is compared with, and    *)
(* how; what the query DTOs refuse; and a client that pages through one.    *)
(* A parameter is a pair of its field and its suffix: price_gte is          *)
(* <<"price", "gte">>.                                                      *)
(***************************************************************************)
EXTENDS Catalogue

CONSTANTS
    MaxFilters, \* bound: parameters of a query
    Limit       \* rows of a page

VARIABLES
    listing,    \* the listing the client filters, or None
    query,      \* its parameters so far: functions from filters to values
    walk        \* a client that pages through a table

listingVars == <<listing, query, walk>>

\* Values of every type are numbered: a text contains those of lower number.
NullValue == 0
Given == 1..2
ColumnValues == {NullValue} \cup Given

Matches(op, value, given) ==
    /\ value # NullValue
    /\ CASE op = "="  -> value = given
         [] op = ">=" -> value >= given
         [] op = "<=" -> value <= given
         [] op = ">"  -> value > given
         [] op = "<"  -> value < given
         [] op = "like" -> value >= given

\* One andWhere: the parameter of the query that adds it, column, operator, and
\* the name its value is bound to.
Where(filter, column, op) ==
    [filter |-> filter, column |-> column, op |-> op, param |-> filter]
Equal(fields) == {Where(<<f, "">>, f, "=") : f \in fields}
Like(fields)  == {Where(<<f, "">>, f, "like") : f \in fields}
Ranges(fields) ==
    {Where(<<f, "">>, f, "=") : f \in fields}
    \cup {Where(<<f, "gte">>, f, ">=") : f \in fields}
    \cup {Where(<<f, "lte">>, f, "<=") : f \in fields}
Bounds(field, column, op) ==
    {Where(<<field, "">>, column, op), Where(<<field, "gte">>, column, ">="),
     Where(<<field, "lte">>, column, "<=")}

\* A listing: conditions of the query, conditions it always has, the values
\* bound to the latter, filters that make the statement fail, and whether it
\* fails in any case.
Plain(wheres) == [wheres |-> wheres, always |-> {}, bound |-> [x \in {} |-> 1],
                  fails |-> {}, broken |-> FALSE]

-----------------------------------------------------------------------------
(* The tables                                                                *)

ConcertWheres ==
    Like({"concert_name", "concert_group_name", "venue_name", "venue_location", "venue_type",
          "venue_email", "venue_phone_number", "artist_name", "genre_name"})
    \cup Ranges({"concert_available_from", "concert_start_date", "concert_end_date",
                 "venue_capacity"})
    \cup {[filter |-> <<"is_active", "">>, column |-> "is_active", op |-> "=",
           param |-> <<"isActive", "">>]}

\* getConcerts for customers: is_active of the query is bound to the name the
\* listing has bound to true.
ForCustomers ==
    {[filter |-> None, column |-> "concert_available_from", op |-> ">=", param |-> <<"now", "">>],
     [filter |-> None, column |-> "is_active", op |-> "=", param |-> <<"isActive", "">>]}

MemberWheres ==
    Equal({"concert_member_id"}) \cup Like({"full_name", "email", "phone_number"})

PositionWheres == Equal({"concert_member_id", "concert_id", "role_id", "access_code"})

RoleWheres == Equal({"role_id"}) \cup Like({"role_name"})

ArtistWheres == Equal({"artist_id", "genre_id"}) \cup Like({"artist_name"})

RuleWheres ==
    Equal({"register_rule_id", "concert_id", "is_active"})
    \cup {Where(<<"available_from", "gte">>, "available_from", ">="),
          Where(<<"valid_until", "lte">>, "valid_until", "<=")}

\* Mutant: an upper bound is bound to the name of a lower one.
TicketWheresShared ==
    Equal({"ticket_id", "concert_id", "is_used", "ticket_category_id"})
    \cup Like({"ticket_code"})
    \cup {IF w.filter = <<"price", "lte">> THEN [w EXCEPT !.param = <<"price", "gte">>] ELSE w :
             w \in Ranges({"price"})}

\* start_date and end_date bound the creation, with no suffix too.
TicketWheres ==
    Equal({"ticket_id", "concert_id", "is_used", "ticket_category_id"})
    \cup Like({"ticket_code"}) \cup Ranges({"price"})
    \cup Bounds("start_date", "created_at", ">=")
    \cup Bounds("end_date", "created_at", "<=")

\* Mutant: price_lte is a lower bound.
CategoryWheresSwapped ==
    Ranges({"quantity", "default_quantity"}) \cup Bounds("start_date", "start_date", "=")
    \cup {IF w.filter = <<"price", "lte">> THEN [w EXCEPT !.op = ">="] ELSE w :
             w \in Ranges({"price"})}

CategoryWheres ==
    Equal({"ticket_category_id", "area"})
    \cup Like({"ticket_category_name", "ticket_category_description"})
    \cup Ranges({"price", "quantity", "start_date", "end_date", "default_quantity"})

\* getTicketForCurrentUserWithAggregate asks for a column tickets do not have.
MyTicketWheres == {w \in TicketWheres : w.column # "price"}

\* The columns both listings of orders filter.
OrderColumns ==
    Equal({"register_id", "status", "payment_method"})
    \cup {Where(<<"start_date", "">>, "created_at", ">="),
          Where(<<"end_date", "">>, "created_at", "<="),
          Where(<<"total_price", "gte">>, "total_price", ">="),
          Where(<<"total_price", "lte">>, "total_price", "<=")}

\* email names a table the statement does not join.
OrderWheres == OrderColumns \cup Equal({"user_id", "email"})

MyOrderWheres == OrderColumns

UserWheres ==
    Like({"first_name", "last_name", "email", "username"})
    \cup Equal({"gender", "role_name", "is_confirmed", "account_status"})
    \cup Ranges({"birth_date"})
    \cup {Where(<<"birth_date", "gt">>, "birth_date", ">"),
          Where(<<"birth_date", "lt">>, "birth_date", "<")}

\* The current user, like now, is the value 1.
OfCurrentUser ==
    [always |-> {[filter |-> None, column |-> "user_id", op |-> "=", param |-> <<"user", "">>]},
     bound  |-> [x \in {<<"user", "">>} |-> 1]]

Listing ==
    [concerts   |-> Plain(ConcertWheres),
     customers  |-> [Plain(ConcertWheres) EXCEPT !.always = ForCustomers,
                        !.bound = [x \in {<<"now", "">>, <<"isActive", "">>} |-> 1]],
     members    |-> Plain(MemberWheres),
     positions  |-> Plain(PositionWheres),
     roles      |-> Plain(RoleWheres),
     artists    |-> [Plain(ArtistWheres) EXCEPT !.fails = {<<"genre_id", "">>}],
     rules      |-> Plain(RuleWheres),
     tickets    |-> Plain(TicketWheres),
     categories |-> Plain(CategoryWheres),
     orders     |-> [Plain(OrderWheres) EXCEPT !.fails = {<<"email", "">>}],
     myOrders   |-> [Plain(MyOrderWheres) EXCEPT !.always = OfCurrentUser.always,
                        !.bound = OfCurrentUser.bound],
     myTickets  |-> [Plain(MyTicketWheres) EXCEPT !.broken = TRUE],
     users      |-> Plain(UserWheres)]

-----------------------------------------------------------------------------
(* The query DTOs.  Parameters arrive as texts: a number or a boolean that    *)
(* no @Transform converts is refused.  A listing without a DTO takes any.     *)

FindUsersDto               == {"is_confirmed"}
FindArtistDto              == {"artist_id", "genre_id"}
FindConcertMemberDto       == {"concert_member_id"}
FindConcertRoleDto         == {"concert_member_id", "concert_id", "role_id"}
FindRegistrationRuleDto    == {"register_rule_id", "concert_id", "is_active"}
FindRoleDto                == {"role_id"}
FindTicketsCategoriesDto   == {"ticket_category_id", "quantity", "default_quantity"}
FindTicketsDto             == {"is_used", "concert_id", "ticket_id", "ticket_category_id"}

Refused(l) ==
    CASE l = "users" -> FindUsersDto
      [] l = "artists" -> FindArtistDto
      [] l = "members" -> FindConcertMemberDto
      [] l = "positions" -> FindConcertRoleDto
      [] l = "rules" -> FindRegistrationRuleDto
      [] l = "roles" -> FindRoleDto
      [] l = "categories" -> FindTicketsCategoriesDto
      [] l = "tickets" -> FindTicketsDto
      [] OTHER -> {}

Filters(l) == {w.filter : w \in Listing[l].wheres}

-----------------------------------------------------------------------------
(* The rows a query gives                                                    *)

Active(l, q) ==
    Listing[l].always \cup {w \in Listing[l].wheres : w.filter \in DOMAIN q}

\* setParameter: a name has one value, the last that was bound to it.
Bound(l, q, param) ==
    LET setters == {w \in Listing[l].wheres : w.filter \in DOMAIN q /\ w.param = param}
    IN  IF setters = {} THEN Listing[l].bound[param]
        ELSE q[(CHOOSE w \in setters : TRUE).filter]

Errs(l, q) ==
    \/ Listing[l].broken
    \/ \E f \in DOMAIN q : f \in Listing[l].fails \/ f[1] \in Refused(l)

\* The rows over these columns that the listing gives; an error gives none.
\* A table lists the rows with each combination of values once.
Result(l, q, columns) ==
    IF Errs(l, q) THEN {}
    ELSE {row \in [columns -> ColumnValues] :
             \A w \in Active(l, q) : Matches(w.op, row[w.column], Bound(l, q, w.param))}

Touched(l, q) == {w.column : w \in Active(l, q)}

-----------------------------------------------------------------------------
(* Pages                                                                     *)

RowsOf(k) == {i \in Ids : rows[k][i] # Gone}
Before(k, i) == Cardinality({j \in RowsOf(k) : j < i})

\* Mutant: the first row of the page is missed.
PageFromNext(k, offset) ==
    {i \in RowsOf(k) : Before(k, i) > offset /\ Before(k, i) < offset + Limit}

\* orderBy the identifier, offset and limit.
Page(k, offset) ==
    {i \in RowsOf(k) : Before(k, i) >= offset /\ Before(k, i) < offset + Limit}

NoWalk == [table |-> None]

AddFilter ==
    /\ listing # None
    /\ Cardinality(DOMAIN query) < MaxFilters
    /\ \E f \in Filters(listing) \ DOMAIN query, v \in Given :
          query' = [g \in DOMAIN query \cup {f} |-> IF g = f THEN v ELSE query[g]]
    /\ UNCHANGED <<listing, walk>>

\* The client asks for pages until one is short.  deleted and revived say what
\* happened between two of its pages: a row went, or one appeared, brought back
\* or new, whose identifier is lower than that of a row that was there.
NextPage ==
    LET k == walk.table
        page == Page(k, walk.offset)
    IN  /\ k # None
        /\ ~walk.done
        /\ walk' = [walk EXCEPT
              !.offset = @ + Limit,
              !.seen = @ \cup page,
              !.twice = @ \/ page \cap walk.seen # {},
              !.deleted = @ \/ walk.last \ RowsOf(k) # {},
              !.revived = @ \/ \E i \in RowsOf(k) \ walk.last : \E j \in walk.last : i < j,
              !.last = RowsOf(k),
              !.done = Cardinality(page) < Limit]
        /\ UNCHANGED <<listing, query>>

ListingsInit(l, k) ==
    /\ listing = l
    /\ query = [f \in {} |-> 1]
    /\ walk = IF k = None THEN NoWalk
              ELSE [table |-> k, offset |-> 0, seen |-> {}, twice |-> FALSE,
                    deleted |-> FALSE, revived |-> FALSE, first |-> RowsOf(k),
                    last |-> RowsOf(k), done |-> FALSE]

ListingsStep == AddFilter \/ NextPage

-----------------------------------------------------------------------------
(* Properties                                                                *)

\* A parameter more never gives a row more: no two conditions share a name by
\* accident, and none is joined by OR.  The exception is is_active in the
\* customers' listing, which replaces the condition on active concerts.
FilterNarrows ==
    [][listing # None /\ query' # query =>
          \/ listing = "customers" /\ \E f \in DOMAIN query' \ DOMAIN query : f[1] = "is_active"
          \/ Result(listing, query', Touched(listing, query'))
                \subseteq Result(listing, query, Touched(listing, query'))]_query

\* Both bounds at once give what the value itself gives, in every listing that
\* takes the three, except the dates of tickets, which have one bound.
RangesAgree ==
    listing # None =>
        \A f \in {w.filter : w \in Listing[listing].wheres} :
            LET lower == <<f[1], "gte">>
                upper == <<f[1], "lte">>
                plain == <<f[1], "">>
            IN  (/\ DOMAIN query = {lower, upper} /\ f = plain
                 /\ query[lower] = query[upper]
                 /\ ~(listing \in {"tickets", "myTickets"}
                      /\ f[1] \in {"start_date", "end_date"})) =>
                    Result(listing, query, Touched(listing, query)) =
                    Result(listing, [x \in {plain} |-> query[lower]], Touched(listing, query))

\* A client that pages through a table in the order of the identifiers misses a
\* row that stays only after a deletion, and sees one twice only after a row
\* appeared with a lower identifier than one that was there: a row that save()
\* brought back, and no row that an insertion adds after the others.
WalkExact ==
    walk.table # None =>
        /\ walk.done /\ ~walk.deleted => walk.first \cap walk.last \subseteq walk.seen
        /\ walk.twice => walk.revived
=============================================================================
