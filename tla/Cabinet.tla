------------------------------ MODULE Cabinet ------------------------------
(***************************************************************************)
(* base::cabinet::Cabinet: objects kept in a vector of cells, found again   *)
(* by a token that names the cell and carries the id the cell had when the  *)
(* object was put in.  Free cells form a list through their next_free.      *)
(*                                                                         *)
(* A cabinet is a value, [last_id, cells, first_free]; the operations       *)
(* return the new one.  Positions are 1-based, 0 stands for the largest     *)
(* size_t, "no cell".  count_ only feeds size() and is left out.            *)
(***************************************************************************)
EXTENDS Naturals, Sequences

CONSTANT NoObj      \* nullptr

NoPos == 0
Empty == [last_id |-> 0, cells |-> <<>>, first_free |-> NoPos]

\* The id wraps at the largest size_t, out of any bound here; it is never 0.
AllocId(cab) == cab.last_id + 1
AllocPos(cab) == IF cab.first_free # NoPos THEN cab.first_free ELSE Len(cab.cells) + 1

\* The token that alloc() returns.
NewToken(cab) == [id |-> AllocId(cab), pos |-> AllocPos(cab)]

Alloc(cab, obj) ==
  LET pos  == AllocPos(cab)
      cell == [id |-> AllocId(cab), obj |-> obj, next_free |-> NoPos]
  IN [last_id    |-> AllocId(cab),
      cells      |-> [p \in 1..(IF pos > Len(cab.cells) THEN pos ELSE Len(cab.cells)) |->
                        IF p = pos THEN cell ELSE cab.cells[p]],
      first_free |-> IF cab.first_free # NoPos THEN cab.cells[pos].next_free ELSE NoPos]

Holds(cab, token) ==
  /\ token.id # 0 /\ token.pos \in 1..Len(cab.cells)
  /\ cab.cells[token.pos].id = token.id

At(cab, token) == IF Holds(cab, token) THEN cab.cells[token.pos].obj ELSE NoObj

Free(cab, token) ==
  IF Holds(cab, token)
  THEN [cab EXCEPT !.cells[token.pos] = [id |-> 0, obj |-> NoObj, next_free |-> cab.first_free],
                   !.first_free = token.pos]
  ELSE cab

\* foreach() visits the occupied cells; clear() forgets everything, the last id included.
Objects(cab) == {cab.cells[p].obj : p \in {q \in 1..Len(cab.cells) : cab.cells[q].id # 0}}
Clear(cab) == Empty
=============================================================================
