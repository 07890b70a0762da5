--------------------------- MODULE WorkspaceWorld ---------------------------
(***************************************************************************)
(* tools/workspace.py: the tools of the workspace world.  A tool maps its  *)
(* arguments and the world to a new world and an outcome; nothing else     *)
(* keeps state.                                                            *)
(*                                                                         *)
(* A world is its tickets and its emails, by the number of their ids       *)
(* ("T-3" and "e-3" are 3).  Accounts and documents are read only.  A      *)
(* ticket is a record that may lack an assignee.  A call is its tool's     *)
(* name and a record of arguments.                                         *)
(***************************************************************************)
EXTENDS Integers, FiniteSets, FiniteSetsExt

CONSTANTS Accounts,  \* the account's number -> its email address
          Docs       \* the document's number -> what a query finds it by

ASSUME WorkspaceAssumption ==
  IsFiniteSet(DOMAIN Accounts) /\ IsFiniteSet(DOMAIN Docs)

\* What a task may begin with: records by their numbers.
IsCollection(records) ==
  /\ DOMAIN records \in SUBSET Nat /\ IsFiniteSet(DOMAIN records)
  /\ records = [id \in DOMAIN records |-> records[id]]

IsWorld(w) ==
  /\ w = [tickets |-> w.tickets, emails |-> w.emails]
  /\ \A container \in {"tickets", "emails"} : IsCollection(w[container])

-----------------------------------------------------------------------------
(* What a call may look like.                                              *)

Takes(required, optional) == [required |-> required, optional |-> optional]

\* WORKSPACE_TOOLS; additionalProperties is false throughout.
Tools ==
  [search_docs    |-> Takes({"query"}, {}),
   create_ticket  |-> Takes({"title", "priority"}, {}),
   update_ticket  |-> Takes({"ticket_id", "status"}, {}),
   archive_ticket |-> Takes({"ticket_id"}, {}),
   list_tickets   |-> Takes({}, {"status", "assignee", "priority"}),
   get_account    |-> Takes({"user_id"}, {}),
   find_account   |-> Takes({"email"}, {}),
   send_email     |-> Takes({"to", "subject", "body"}, {}),
   draft_email    |-> Takes({"to", "subject", "body"}, {})]

\* The enums of the schemas and their minLength; an id is a number here.
Legal(name, field, value) ==
  CASE field = "priority" -> value \in {"low", "medium", "high"}
    [] field = "status"   -> \/ value \in {"open", "closed"}
                             \/ name = "list_tickets" /\ value = "archived"
    [] field \in {"ticket_id", "user_id"} -> TRUE
    [] OTHER -> value # ""

\* validate_args.
Valid(call) ==
  LET given == DOMAIN call.args
      tool  == Tools[call.name]
  IN /\ tool.required \subseteq given
     /\ given \subseteq tool.required \cup tool.optional
     /\ \A field \in given : Legal(call.name, field, call.args[field])

\* What turns a call away before its tool sees it, or "none".
Refusal(call) ==
  IF call.name \notin DOMAIN Tools THEN "unknown_tool"
  ELSE IF ~Valid(call) THEN "invalid_args" ELSE "none"

-----------------------------------------------------------------------------
(* The tools.  An outcome is its error and the ids it names.               *)

Found(w, ids)    == [world |-> w, outcome |-> [error |-> "none", ids |-> ids]]
Failed(w, error) == [world |-> w, outcome |-> [error |-> error, ids |-> {}]]

\* {**d, key: value}.
Put(d, key, value) ==
  [x \in DOMAIN d \cup {key} |-> IF x = key THEN value ELSE d[x]]

\* Mutant: one more than there are.
NextIdCounted(records) == Cardinality(DOMAIN records) + 1

\* _next_ticket_id, _next_email_id.
NextId(records) == Max(DOMAIN records \cup {0}) + 1

CreateTicket(a, w) ==
  LET id == NextId(w.tickets)
      ticket == [title |-> a.title, priority |-> a.priority, status |-> "open"]
  IN Found([w EXCEPT !.tickets = Put(@, id, ticket)], {id})

\* What the two writing tools share; an archived ticket can be reopened.
SetStatus(id, status, w) ==
  IF id \in DOMAIN w.tickets
  THEN Found([w EXCEPT !.tickets = Put(@, id, Put(@[id], "status", status))], {id})
  ELSE Failed(w, "unknown_id")

UpdateTicket(a, w)  == SetStatus(a.ticket_id, a.status, w)
ArchiveTicket(a, w) == SetStatus(a.ticket_id, "archived", w)

ListTickets(a, w) ==
  Found(w, {id \in DOMAIN w.tickets :
              \A field \in DOMAIN a :
                /\ field \in DOMAIN w.tickets[id]
                /\ w.tickets[id][field] = a[field]})

\* Sent emails and drafts are numbered together.
AddEmail(a, state, w) ==
  LET id == NextId(w.emails)
      email == [to |-> a.to, subject |-> a.subject, body |-> a.body, state |-> state]
  IN Found([w EXCEPT !.emails = Put(@, id, email)], {id})

SendEmail(a, w)  == AddEmail(a, "sent", w)
DraftEmail(a, w) == AddEmail(a, "draft", w)

GetAccount(a, w) ==
  IF a.user_id \in DOMAIN Accounts THEN Found(w, {a.user_id})
  ELSE Failed(w, "unknown_id")

FindAccount(a, w) == Found(w, {u \in DOMAIN Accounts : Accounts[u] = a.email})

SearchDocs(a, w) == Found(w, {d \in DOMAIN Docs : a.query \in Docs[d]})

\* apply, with its table of implementations.
Applied(call, w) ==
  LET a == call.args
  IN IF Refusal(call) # "none" THEN Failed(w, Refusal(call))
     ELSE CASE call.name = "create_ticket"  -> CreateTicket(a, w)
            [] call.name = "update_ticket"  -> UpdateTicket(a, w)
            [] call.name = "archive_ticket" -> ArchiveTicket(a, w)
            [] call.name = "list_tickets"   -> ListTickets(a, w)
            [] call.name = "send_email"     -> SendEmail(a, w)
            [] call.name = "draft_email"    -> DraftEmail(a, w)
            [] call.name = "get_account"    -> GetAccount(a, w)
            [] call.name = "find_account"   -> FindAccount(a, w)
            [] call.name = "search_docs"    -> SearchDocs(a, w)
=============================================================================
