--------------------------- MODULE ResourceReads ---------------------------
(***************************************************************************)
(* The API's reads: one resource by ID, and lists one page at a time.  A   *)
(* page token names the kind of resource it belongs to and the last ID of  *)
(* the page before; the list after it starts with the next greater ID.     *)
(* Optional parameters are sets of at most one value.                      *)
(***************************************************************************)
EXTENDS ResourceStore, FiniteSetsExt

CONSTANTS DefaultPage, MaxPage    \* page sizes (50 and 100 in the code)

ASSUME PageAssumption == 1 <= DefaultPage /\ DefaultPage <= MaxPage

Refused(status) == [status |-> status]

Given(parameter, default) == IF parameter = {} THEN default ELSE CHOOSE x \in parameter : TRUE

-----------------------------------------------------------------------------
(* Page sizes and tokens.                                                  *)

NoToken == [kind |-> "", last |-> 0]

PageSizeOK(limit) == limit \in 0..MaxPage
PageSize(limit) == IF limit = 0 THEN DefaultPage ELSE limit

EncodePageToken(kind, last) == [kind |-> kind, last |-> last]
DecodePageToken(kind, token) == token = NoToken \/ token.kind = kind

(* A token for the row that was read only to see that there is one.        *)
PagePastExtra(kind, rows, size) ==
  IF Cardinality(rows) <= size
  THEN [status |-> 200, items |-> rows, next |-> NoToken]
  ELSE [status |-> 200, items |-> rows \ {Max(rows)}, next |-> EncodePageToken(kind, Max(rows))]

(* One row more than the page is read, to know whether another follows.    *)
PageOf(kind, rows, size) ==
  IF Cardinality(rows) <= size
  THEN [status |-> 200, items |-> rows, next |-> NoToken]
  ELSE LET items == rows \ {Max(rows)}
       IN  [status |-> 200, items |-> items, next |-> EncodePageToken(kind, Max(items))]

-----------------------------------------------------------------------------
(* The service's lists.                                                    *)

ListVPCs(d, limit, token) ==
  IF ~PageSizeOK(limit) \/ ~DecodePageToken("vpc", token) THEN Refused(400)
  ELSE PageOf("vpc", ListVPCPage(d, token.last, PageSize(limit) + 1), PageSize(limit))

ListSubnets(d, limit, token) ==
  IF ~PageSizeOK(limit) \/ ~DecodePageToken("subnet", token) THEN Refused(400)
  ELSE PageOf("subnet", ListSubnetPage(d, token.last, PageSize(limit) + 1), PageSize(limit))

List(d, limit, token) ==
  IF ~PageSizeOK(limit) \/ ~DecodePageToken("instance", token) THEN Refused(400)
  ELSE PageOf("instance", ListInstancePage(d, token.last, PageSize(limit) + 1), PageSize(limit))

-----------------------------------------------------------------------------
(* The handlers.                                                           *)

ListVpcs(d, params) == ListVPCs(d, Given(params.limit, 0), Given(params.token, NoToken))
ListSubnetsPage(d, params) ==
  ListSubnets(d, Given(params.limit, 0), Given(params.token, NoToken))
ListInstances(d, params) == List(d, Given(params.limit, 0), Given(params.token, NoToken))

GetVpc(d, id) ==
  IF GetVPC(d, id) = {} THEN Refused(404) ELSE [status |-> 200, row |-> d.vpcs[id]]
GetSubnetRow(d, id) ==
  IF GetSubnet(d, id) = {} THEN Refused(404) ELSE [status |-> 200, row |-> d.subnets[id]]
GetInstanceRow(d, id) ==
  IF GetInstance(d, id) = {} THEN Refused(404) ELSE [status |-> 200, row |-> d.instances[id]]
=============================================================================
