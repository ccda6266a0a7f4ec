-------------------------- MODULE DeviceListPromise --------------------------
(***************************************************************************)
(* What the device list of an address promises, whoever changes it at the  *)
(* same time: its versions are numbered one by one, and each is the effect *)
(* of ONE operation on the version just before it.  An entry is a device   *)
(* key under an id.  DeviceList implements this (Versprechen there).       *)
(***************************************************************************)
EXTENDS Integers

CONSTANT Eintrag        \* [id, geraet]

VARIABLES epoche,       \* 0: there is no list yet
          liste,        \* its entries
          letzte        \* the operation that made it: [art, von, wen]

Operation == [art : {"anlegen", "ab", "nur", "zu", "zurueck"}, von : Eintrag, wen : Eintrag]

(* Who may: a member, or someone outside who throws all the others out. *)
Darf(op, L) == CASE op.art = "anlegen" -> L = {}
                 [] op.art = "zurueck" -> L # {}
                 [] op.art \in {"ab", "nur", "zu"} -> op.von \in L

Wirkung(op, L) == CASE op.art = "ab" -> {e \in L : e.id # op.wen.id}
                    [] op.art = "zu" -> L \cup {op.wen}
                    [] op.art \in {"anlegen", "nur", "zurueck"} -> {op.von}

(* One key for each id, one id for each key, and never nobody. *)
Brauchbar(L) == /\ L # {}
                /\ \A e, f \in L : (e.id = f.id \/ e.geraet = f.geraet) => e = f

Init == epoche = 0 /\ liste = {} /\ letzte = [art |-> "keine"]

Aendert(op) == /\ letzte' = op
               /\ Darf(op, liste)
               /\ liste' = Wirkung(op, liste) /\ Brauchbar(liste')
               /\ epoche' = epoche + 1

Next == \E op \in Operation : Aendert(op)

Spec == Init /\ [][Next]_<<epoche, liste, letzte>>
=============================================================================
