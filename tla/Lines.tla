--------------------------------- MODULE Lines ---------------------------------
(***************************************************************************)
(* The lines a step of Broker writes to each client, read off the          *)
(* bookkeeping it keeps of what it has written.  Petitions are exact names *)
(* here and a client registers a name once while it is connected, as the   *)
(* programs of the repository do.                                          *)
(***************************************************************************)
EXTENDS Broker, SequencesExt

LinesAssumption ==
  /\ IsFiniteSet(Name)
  /\ Petition = Name
  /\ \A p \in Name : Matches[p] = {p}

Register(p) == [say |-> "register", name |-> p, value |-> Nothing]
Unregister(p) == [say |-> "unregister", name |-> p, value |-> Nothing]
Assign(p, v) == [say |-> "=", name |-> p, value |-> v]

\* WriteLine(name + '=' + val): a line for each name whose record of d this step has
\* set.  Where a client registers a name once, only Send changes the record of one that
\* stays subscribed.
Updates(d) == {p \in Name : d \in subscribers'[p] /\ sent'[p][d] # sent[p][d]}

\* (Mutant: a petition is passed on also to whoever was told of the name before.)
WrittenAgain(d) ==
  SetToSeq({Unregister(p) : p \in offered[d] \ offered'[d]})
  \o SetToSeq({Register(p) : p \in {q \in offered'[d] :
                 q \notin offered[d] \/ petitioners'[q] \ petitioners[q] # {}}})
  \o SetToSeq({Assign(p, value'[p]) : p \in Updates(d)})

\* The lines one step writes to d.  The second "unregister(p)" in a row, which
\* UpdateEmptyRegisters may write, says nothing new; the order of the names does not
\* matter to who reads them.
Written(d) ==
  SetToSeq({Unregister(p) : p \in offered[d] \ offered'[d]})
  \o SetToSeq({Register(p) : p \in offered'[d] \ offered[d]})
  \o SetToSeq({Assign(p, value'[p]) : p \in Updates(d)})
===============================================================================
