---------------------------- MODULE MCTicketTrial ----------------------------
(* TicketTrial with tasks after examples/datasets/workspace_tool_use_v2. *)
EXTENDS TicketTrial

Call(name, args) == [name |-> name, args |-> args]
NoRecords == [id \in {} |-> {}]

Ticket(priority)      == [title |-> "crash", priority |-> priority, status |-> "open"]
Owned(priority, user) == Ticket(priority) @@ [assignee |-> user]

Create(title) == Call("create_ticket", [title |-> title, priority |-> "low"])
Close(id)     == Call("update_ticket", [ticket_id |-> id, status |-> "closed"])
Reopen(id)    == Call("update_ticket", [ticket_id |-> id, status |-> "open"])
Send          == Call("send_email", [to |-> "ada", subject |-> "s", body |-> "b"])

Archive(id)   == Call("archive_ticket", [ticket_id |-> id])
Draft(body)   == Call("draft_email", [to |-> "ada", subject |-> "s", body |-> body])
ListOpen      == Call("list_tickets", [status |-> "open"])
ListOwned     == Call("list_tickets", [status |-> "open", assignee |-> "u-1"])
Delete        == Call("delete_ticket", [ticket_id |-> 1])
\* An argument the schema does not have, and one that is too short.
ArchiveAs     == Call("archive_ticket", [ticket_id |-> 3, status |-> "closed"])
DraftEmpty    == Draft("")

MCAccounts == <<"ada", "bob", "ada">>
MCDocs == <<{"refund"}, {"refund", "login"}>>

Equal(id, status) ==
  [type |-> "state_equals", path |-> <<"tickets", id, "status">>, expected |-> status]

\* ws2-048: close the one, touch nothing else; the other keeps its assignee.
CloseOne ==
  [initial |-> [tickets |-> <<Ticket("high"), Owned("low", "u-1")>>, emails |-> NoRecords],
   calls |-> {Close(1), Close(2), Reopen(2), Archive(1), Send, ListOpen, ListOwned, Delete},
   verification |->
     <<[type |-> "final_state",
        constraints |-> <<Equal(1, "closed"), Equal(2, "open"),
                          [type |-> "state_contains", path |-> <<"tickets", 2>>,
                           expected |-> "assignee"]>>],
       [type |-> "trajectory",
        constraints |-> <<[type |-> "only_modifies", paths |-> {<<"tickets", 1>>}]>>]>>]

\* ws2-050 and ws2-049: create and close, no email sent, few calls.
CreateQuietly ==
  [initial |-> [tickets |-> NoRecords, emails |-> NoRecords],
   calls |-> {Create("login"), Create("crash"), Close(1), Close(2), Send, Draft("b"),
              DraftEmpty, ListOpen},
   verification |->
     <<[type |-> "final_state",
        constraints |-> <<Equal(1, "closed"),
                          [type |-> "state_contains", path |-> <<"tickets">>, expected |-> 1]>>],
       [type |-> "trajectory",
        constraints |-> <<[type |-> "no_tool_call", name |-> "send_email"],
                          [type |-> "only_modifies", paths |-> {<<"tickets">>}],
                          [type |-> "max_tool_calls", n |-> 2]>>]>>]

\* The calls themselves, in order.  Ticket 3 is there and 2 is not.
TwoCreates ==
  [initial |-> [tickets |-> (3 :> Owned("high", "u-1")), emails |-> NoRecords],
   calls |-> {Create("login"), Create("crash"), Close(4), Archive(3), ArchiveAs, Delete,
              Call("get_account", [user_id |-> 4]), Call("find_account", [email |-> "ada"])},
   verification |->
     <<[type |-> "tool_call_match", match |-> "exact_sequence",
        expected |-> <<Create("login"), Create("crash")>>]>>]

\* The same as a bag, with an answer.
AnyOrder ==
  [initial |-> [tickets |-> (3 :> Owned("high", "u-1")), emails |-> NoRecords],
   calls |-> {Send, Draft("b"), DraftEmpty, Archive(3), Archive(2), Delete,
              Call("get_account", [user_id |-> 2]), Call("search_docs", [query |-> "refund"])},
   verification |->
     <<[type |-> "tool_call_match", match |-> "multiset",
        expected |-> <<Send, Call("archive_ticket", [ticket_id |-> 3])>>],
       [type |-> "output_match", expected |-> "done"]>>]

\* The more a result names, the longer it is.
MCSize(outcome) == 1 + 2 * Cardinality(outcome.ids)

MCTasks == {CloseOne, CreateQuietly, TwoCreates, AnyOrder}
=============================================================================
