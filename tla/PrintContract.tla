--------------------------- MODULE PrintContract ---------------------------
(***************************************************************************)
(* What branch printing promises the cashier, without agents, leases,      *)
(* attempts, journals or networks: documents, sheets of paper, and one     *)
(* person allowed to say what happened when the machines cannot know.      *)
(***************************************************************************)
EXTENDS Naturals

CONSTANT Jobs

VARIABLES
  fase,       \* what is known of each document
  aperturas,  \* how many times the document was ordered printed
  permisos,   \* signatures issued for it
  copias,     \* copies that came out
  porAdmin    \* documents an administrator vouched for

vars == <<fase, aperturas, permisos, copias, porAdmin>>

Fases == {"ausente", "abierta", "incierta", "impresa", "fallida"}

Init ==
  /\ fase = [j \in Jobs |-> "ausente"]
  /\ aperturas = [j \in Jobs |-> 1]
  /\ permisos = [j \in Jobs |-> 0]
  /\ copias = [j \in Jobs |-> 0]
  /\ porAdmin = {}

Encolar(j) ==
  /\ fase[j] = "ausente"
  /\ fase' = [fase EXCEPT ![j] = "abierta"]
  /\ UNCHANGED <<aperturas, permisos, copias, porAdmin>>

\* From here on nobody but an administrator may print the document again.
Cruzar(j) ==
  /\ fase[j] = "abierta"
  /\ fase' = [fase EXCEPT ![j] = "incierta"]
  /\ UNCHANGED <<aperturas, permisos, copias, porAdmin>>

Autorizar(j) ==
  /\ fase[j] = "incierta" /\ permisos[j] < aperturas[j]
  /\ permisos' = [permisos EXCEPT ![j] = @ + 1]
  /\ UNCHANGED <<fase, aperturas, copias, porAdmin>>

\* Paper may come out late, after the document was reopened or resolved.
Imprimir(j) ==
  /\ copias[j] < permisos[j]
  /\ copias' = [copias EXCEPT ![j] = @ + 1]
  /\ UNCHANGED <<fase, aperturas, permisos, porAdmin>>

Confirmar(j) ==
  /\ fase[j] = "incierta" /\ copias[j] >= 1
  /\ fase' = [fase EXCEPT ![j] = "impresa"]
  /\ UNCHANGED <<aperturas, permisos, copias, porAdmin>>

Fallar(j) ==
  /\ fase[j] = "abierta"
  /\ fase' = [fase EXCEPT ![j] = "fallida"]
  /\ UNCHANGED <<aperturas, permisos, copias, porAdmin>>

DarPorImpresa(j) ==
  /\ fase[j] \in {"abierta", "incierta"}
  /\ fase' = [fase EXCEPT ![j] = "impresa"]
  /\ porAdmin' = porAdmin \cup {j}
  /\ UNCHANGED <<aperturas, permisos, copias>>

Reabrir(j) ==
  /\ fase[j] \in {"abierta", "incierta"}
  /\ fase' = [fase EXCEPT ![j] = "abierta"]
  /\ aperturas' = [aperturas EXCEPT ![j] = @ + 1]
  /\ UNCHANGED <<permisos, copias, porAdmin>>

Next == \E j \in Jobs :
  \/ Encolar(j) \/ Cruzar(j) \/ Autorizar(j) \/ Imprimir(j) \/ Confirmar(j)
  \/ Fallar(j) \/ DarPorImpresa(j) \/ Reabrir(j)

Spec == Init /\ [][Next]_vars
=============================================================================
