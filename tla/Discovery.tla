------------------------------ MODULE Discovery ------------------------------
(***************************************************************************)
(* The descriptions the model is given (_discovery.py): the orchestrator's *)
(* inputs, then the top hits of each query in turn, are admitted within a  *)
(* byte budget, and each admitted service pulls in its providers, depth    *)
(* first.  No state: the calls that are under way are an agenda.           *)
(*                                                                         *)
(* A repository is [size, references, orchestrator]: the size of each      *)
(* description, the references of each service, and those of the           *)
(* orchestrator that it does not serve itself.  A reference is the list of *)
(* the services that provide it.                                           *)
(***************************************************************************)
EXTENDS Sequences, FiniteSets, Naturals

CONSTANTS
  Described,  \* the services the repository describes
  TopK        \* TOP_K

Elements(list) == {list[i] : i \in 1 .. Len(list)}

(* A selection, and what it could not supply: the services over the budget *)
(* and the references none of whose providers was admitted.                *)
NothingSelected == [selected |-> {}, used |-> 0, overBudget |-> {}, unexpanded |-> {}]

(* What is left to do: to admit the rest of the providers of a reference,  *)
(* then to trace it.  A hit is admitted for a query, not for a reference.  *)
Reference(label, providers) == [label |-> label, providers |-> providers, rest |-> providers]
Hit(list) == [label |-> "query", providers |-> <<>>, rest |-> list]

Expansion(label, references) ==
  [i \in 1 .. Len(references) |-> Reference(label, references[i])]

(* The hits in the order they are admitted: the first of every query, then *)
(* the second of every query, up to TopK.                                  *)
Turn(rankings, n) ==
  LET ranking == rankings[1 + ((n - 1) % Len(rankings))]
      rank == 1 + ((n - 1) \div Len(rankings))
  IN  Hit(IF rank <= Len(ranking) THEN << ranking[rank] >> ELSE <<>>)

(* discover, at its first admission.                                       *)
Agenda(repository, rankings) ==
  Expansion("orchestrator", repository.orchestrator)
    \o [n \in 1 .. TopK * Len(rankings) |-> Turn(rankings, n)]

(* admit of _Selection.  A service counts as selected while its references *)
(* are expanded, so a cycle ends.                                          *)
Admitted(repository, budget, service, so) ==
  IF service \in so.selected \cup so.overBudget THEN so
  ELSE IF so.used + repository.size[service] > budget
    THEN [so EXCEPT !.overBudget = @ \cup {service}]
    ELSE [so EXCEPT !.selected = @ \cup {service}, !.used = @ + repository.size[service]]

(* A mutant: a reference is open when one of its providers is missing.     *)
TracedForOneMissing(reference, so) ==
  IF reference.providers # <<>> /\ ~ Elements(reference.providers) \subseteq so.selected
    THEN [so EXCEPT !.unexpanded = @ \cup {<< reference.label, reference.providers >>}]
    ELSE so

(* The end of a reference in expand.                                       *)
Traced(reference, so) ==
  IF reference.providers # <<>> /\ Elements(reference.providers) \cap so.selected = {}
    THEN [so EXCEPT !.unexpanded = @ \cup {<< reference.label, reference.providers >>}]
    ELSE so

(* stop_reason, when the embeddings do not stop the run.                   *)
StopReason(discovery) ==
  CASE discovery.selected # {} -> "none"
    [] discovery.selected = {} /\ discovery.overBudget # {} -> "discovery-over-budget"
    [] OTHER -> "discovery-no-result"
=============================================================================
