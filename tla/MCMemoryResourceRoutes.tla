----------------------- MODULE MCMemoryResourceRoutes -----------------------
EXTENDS MemoryResourceRoutes

CONSTANTS r1, r2, r3, p1, p2

\* draft -> sent by anyone, draft -> void and sent -> paid by an admin.
OrderFlow == {
    [from |-> "draft", to |-> "sent", roles |-> {}],
    [from |-> "draft", to |-> "void", roles |-> {"admin"}],
    [from |-> "sent",  to |-> "paid", roles |-> {"admin"}]}

Op(action, id, amount, to) == [action |-> action, id |-> id, amount |-> amount, to |-> to]

Body(kind, id, to, role, ops) ==
    [kind |-> kind, id |-> id, to |-> to, role |-> role, ops |-> ops]

Take(i, n) == Op("decrement", i, n, "draft")
Give(i, n) == Op("increment", i, n, "draft")

Posts == {
    Body("POST", p1, "draft", "user", ops) : ops \in {
        <<Take(p1, 2)>>,
        <<Take(p1, 1), Take(p2, 2)>>,
        <<Give(p2, 1), Take(p1, 3)>>}}

RareOps == {
    Body("POST", p1, "draft", "user", ops) : ops \in {
        <<Op("create", p2, 1, "draft"), Op("delete", p2, 0, "draft")>>,
        <<Op("update", p1, 0, "sent"), Take(p2, 3)>>}}

Writes ==
    {Body("PUT", p1, to, role, <<Give(p1, 1)>>) :
        to \in {"sent", "void", "paid"}, role \in {"user", "admin"}}
    \cup {Body("PUT", p1, Unset, "user", <<Give(p1, 1)>>)}
    \cup {Body("DELETE", p1, "draft", "user", <<Give(p2, 1)>>)}

\* One body of every kind that matters to three concurrent requests.
MixedBodies ==
    {b \in Posts : Len(b.ops) = 2} \cup RareOps
    \cup {Body("PUT", p1, "sent", "user", <<Give(p1, 1)>>),
          Body("PUT", p1, "void", "user", <<Give(p1, 1)>>),
          Body("PUT", p1, "paid", "admin", <<Give(p1, 1)>>),
          Body("PUT", p1, Unset, "user", <<Give(p1, 1)>>),
          Body("DELETE", p1, "draft", "user", <<Give(p2, 1)>>)}
=============================================================================
