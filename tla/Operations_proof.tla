---------------------------- MODULE Operations_proof ----------------------------
(***************************************************************************)
(* Of the approvals: their types, Consent and AdmitsStanding, for every    *)
(* set of agents, gateways and commands, every set of entries and every    *)
(* fingerprint.  Of the journal: SeqsRise and KeptNewest, for every        *)
(* retention, limit and batch, however many events are appended and        *)
(* however long the clock runs; both rest on what a clean-up may remove:   *)
(* what has expired, and the oldest of what is there.  Of the log          *)
(* directory: TodayKept, for every limit, number of days and size, and     *)
(* three files kept or more, whatever compressing does to the order of the *)
(* files.  Of all parts together, running side by side: their types.       *)
(***************************************************************************)
EXTENDS MC_Operations, FiniteSetTheorems, TLAPS

-----------------------------------------------------------------------------
(* The approvals                                                             *)

(* What says approved was approved with the print it has.                    *)
ConsentInv ==
  /\ \A a \in Agents : row[a].status = "approved" => <<a, row[a].print>> \in consents
  /\ \A g \in Gateways :
       found[g].status = "approved" => <<agentAt[g], found[g].print>> \in consents
  /\ Consent

(* What the history of a start says of the table and of the loop of main():  *)
(* an agent approved all along is still to come, in hand or admitted.        *)
InHand(g, a) == startPc[g] = "write" /\ agentAt[g] = a /\ Approves(found[g], g, a)

StandingInv == \A g \in Gateways :
  /\ allowed[g] \subseteq wasStanding[g]
  /\ \A a \in Agents :
       /\ Starting(g) /\ Approves(row[a], g, a) => a \in wasStanding[g]
       /\ InHand(g, a) => a \in wasStanding[g]
       /\ Starting(g) /\ a \in everStanding[g] =>
            /\ Approves(row[a], g, a)
            /\ a \in toRegister[g] \/ a \in allowed[g] \/ InHand(g, a)
  /\ startPc[g] = "up" => everStanding[g] \subseteq allowed[g]

ApprovalsInv == ApprovalsTypeOK /\ ConsentInv /\ StandingInv

-----------------------------------------------------------------------------
(* The fingerprints of the config.                                           *)
LEMMA PrintsType ==
  ASSUME NEW e \in Entries
  PROVE  PrintOf[e] \in Prints
BY DEF Prints

(* The types, step by step.                                                  *)
LEMMA TypeStep ==
  ASSUME ApprovalsTypeOK, [ApprovalsNext]_approvalsVars
  PROVE  ApprovalsTypeOK'
<1> USE DEF ApprovalsTypeOK
<1>1. CASE UNCHANGED approvalsVars
  BY <1>1 DEF approvalsVars
<1>2. ASSUME NEW a \in Agents, NEW r \in RowType, Put(a, r), r.status = "pending" <=> ~r.decided
      PROVE  /\ row' \in [Agents -> RowType \union {NoRow}]
             /\ wasStanding' \in [Gateways -> SUBSET Agents]
             /\ everStanding' \in [Gateways -> SUBSET Agents]
             /\ \A b \in Agents : row'[b] \in RowType => (row'[b].status = "pending" <=> ~row'[b].decided)
  BY <1>2 DEF Put
<1>3. ASSUME NEW g \in Gateways, StartGateway(g)
      PROVE  ApprovalsTypeOK'
  BY <1>3 DEF StartGateway
<1>4. ASSUME NEW g \in Gateways, Select(g)
      PROVE  ApprovalsTypeOK'
  BY <1>4 DEF Select, NothingPut
<1>5. ASSUME NEW g \in Gateways, RegisterNew(g) \/ RegisterChanged(g)
      PROVE  ApprovalsTypeOK'
  <2>1. agentAt[g] \in Agents /\ PrintHere(g) \in Prints
    BY PrintsType DEF PrintHere
  <2>2. PendingRow(g) \in RowType /\ (PendingRow(g).status = "pending" <=> ~PendingRow(g).decided)
    BY <2>1 DEF PendingRow, RowType, Status
  <2>3. Put(agentAt[g], PendingRow(g)) /\ Registered(g) /\ UNCHANGED allowed
    BY <1>5 DEF RegisterNew, RegisterChanged
  <2>4. /\ row' \in [Agents -> RowType \union {NoRow}]
        /\ wasStanding' \in [Gateways -> SUBSET Agents]
        /\ everStanding' \in [Gateways -> SUBSET Agents]
        /\ \A b \in Agents : row'[b] \in RowType => (row'[b].status = "pending" <=> ~row'[b].decided)
    BY <1>2, <2>1, <2>2, <2>3
  <2> QED
    BY <2>3, <2>4 DEF Registered
<1>6. ASSUME NEW g \in Gateways, RegisterKnown(g)
      PROVE  ApprovalsTypeOK'
  BY <1>6 DEF RegisterKnown, NothingPut, Registered
<1>7. ASSUME NEW g \in Gateways, StartFails(g) \/ StopGateway(g)
      PROVE  ApprovalsTypeOK'
  BY <1>7 DEF StartFails, StopGateway, Down
<1>8. ASSUME NEW g \in Gateways, BuildRegistry(g)
      PROVE  ApprovalsTypeOK'
  BY <1>8 DEF BuildRegistry, NothingPut
<1>9. ASSUME NEW c \in Commands, NEW a \in Agents, NEW print \in Prints \union {NoPrint},
             Decide(c, a, print)
      PROVE  ApprovalsTypeOK'
  <2> DEFINE r == [print |-> print, status |-> command[c].status, decided |-> TRUE]
  <2>1. command[c].status \in {"approved", "rejected"}
    OBVIOUS
  <2>2. r \in RowType /\ r.status # "pending" /\ r.decided
    BY <2>1 DEF RowType, Status
  <2>3. Put(a, r)
    BY <1>9 DEF Decide
  <2>4. /\ row' \in [Agents -> RowType \union {NoRow}]
        /\ wasStanding' \in [Gateways -> SUBSET Agents]
        /\ everStanding' \in [Gateways -> SUBSET Agents]
        /\ \A b \in Agents : row'[b] \in RowType => (row'[b].status = "pending" <=> ~row'[b].decided)
    BY <1>2, <2>2, <2>3
  <2> QED
    BY <1>9, <2>4 DEF Decide
<1>10. ASSUME NEW c \in Commands, SetUpdate(c)
       PROVE  ApprovalsTypeOK'
  <2>1. command[c].agent \in Agents
    OBVIOUS
  <2>2. row[command[c].agent].print \in Prints \union {NoPrint}
    BY <1>10, <2>1 DEF SetUpdate, RowType
  <2> QED
    BY <1>9, <1>10, <2>1, <2>2 DEF SetUpdate
<1>11. ASSUME NEW c \in Commands, SetInsert(c)
       PROVE  ApprovalsTypeOK'
  BY <1>9, <1>11 DEF SetInsert
<1>12. ASSUME NEW c \in Commands, SetMissed(c) \/ SetFails(c)
       PROVE  ApprovalsTypeOK'
  BY <1>12 DEF SetMissed, SetFails, NothingPut, Untouched
<1> QED
  BY <1>1, <1>3, <1>4, <1>5, <1>6, <1>7, <1>8, <1>10, <1>11, <1>12
     DEF ApprovalsNext, StartStep, SetStep

(* ConsentInv, step by step.                                                 *)
LEMMA ConsentStep ==
  ASSUME ApprovalsTypeOK, ConsentInv, [ApprovalsNext]_approvalsVars
  PROVE  ConsentInv'
<1> USE DEF ApprovalsTypeOK, ConsentInv, Consent
<1>1. CASE UNCHANGED approvalsVars
  BY <1>1 DEF approvalsVars
<1>2. ASSUME NEW g \in Gateways, StartGateway(g)
      PROVE  ConsentInv'
  BY <1>2 DEF StartGateway
<1>3. ASSUME NEW g \in Gateways, Select(g)
      PROVE  ConsentInv'
  BY <1>3 DEF Select, NothingPut
<1>4. ASSUME NEW g \in Gateways, RegisterNew(g) \/ RegisterChanged(g)
      PROVE  ConsentInv'
  <2>1. Put(agentAt[g], PendingRow(g)) /\ Registered(g) /\ UNCHANGED allowed
    BY <1>4 DEF RegisterNew, RegisterChanged
  <2>2. row' = [row EXCEPT ![agentAt[g]] = PendingRow(g)] /\ PendingRow(g).status # "approved"
    BY <2>1 DEF Put, PendingRow
  <2> QED
    BY <2>1, <2>2 DEF Registered, NoRow
<1>5. ASSUME NEW g \in Gateways, RegisterKnown(g)
      PROVE  ConsentInv'
  <2>1. Admits(g) => <<agentAt[g], PrintOf[config[g][agentAt[g]]]>> \in consents
    BY <1>5 DEF RegisterKnown, Admits, FirstSight, Changed, PrintHere
  <2>2. \A h \in Gateways : \A a \in allowed'[h] : <<a, PrintOf[config[h][a]]>> \in consents
    BY <1>5, <2>1 DEF RegisterKnown
  <2> QED
    BY <1>5, <2>2 DEF RegisterKnown, NothingPut, Registered, NoRow
<1>6. ASSUME NEW g \in Gateways, StartFails(g) \/ StopGateway(g)
      PROVE  ConsentInv'
  <2>1. /\ allowed' = [allowed EXCEPT ![g] = {}] /\ found' = [found EXCEPT ![g] = NoRow]
        /\ UNCHANGED <<row, config, agentAt, consents>>
    BY <1>6 DEF StartFails, StopGateway, Down
  <2>2. \A h \in Gateways : allowed'[h] \subseteq allowed[h] /\ found'[h] \in {found[h], NoRow}
    BY <2>1
  <2>3. NoRow.status # "approved"
    BY DEF NoRow
  <2> QED
    BY <2>1, <2>2, <2>3
<1>7. ASSUME NEW g \in Gateways, BuildRegistry(g)
      PROVE  ConsentInv'
  BY <1>7 DEF BuildRegistry, NothingPut
<1>8. ASSUME NEW c \in Commands, NEW a \in Agents, NEW print, Decide(c, a, print)
      PROVE  ConsentInv'
  <2>1. /\ consents \subseteq consents'
        /\ command[c].status = "approved" => <<a, print>> \in consents'
        /\ row' = [row EXCEPT ![a] = [print |-> print, status |-> command[c].status, decided |-> TRUE]]
        /\ UNCHANGED <<config, agentAt, found, allowed>>
    BY <1>8 DEF Decide, Put
  <2>2. \A b \in Agents : row'[b].status = "approved" => <<b, row'[b].print>> \in consents'
    BY <2>1
  <2> QED
    BY <2>1, <2>2
<1>9. ASSUME NEW c \in Commands, SetUpdate(c) \/ SetInsert(c)
      PROVE  ConsentInv'
  BY <1>8, <1>9 DEF SetUpdate, SetInsert
<1>10. ASSUME NEW c \in Commands, SetMissed(c) \/ SetFails(c)
       PROVE  ConsentInv'
  BY <1>10 DEF SetMissed, SetFails, NothingPut, Untouched
<1> QED
  BY <1>1, <1>2, <1>3, <1>4, <1>5, <1>6, <1>7, <1>9, <1>10 DEF ApprovalsNext, StartStep, SetStep

(* A statement changes neither the config nor where main() of a gateway is   *)
(* but for the gateway that executes it, which forgets the row in hand.      *)
LEMMA StandingAfterPut ==
  ASSUME ApprovalsTypeOK, StandingInv, NEW a \in Agents, NEW r, Put(a, r),
         UNCHANGED <<config, toRegister, agentAt, allowed>>,
         \/ UNCHANGED <<startPc, found>>
         \/ \E g \in Gateways :
              /\ startPc[g] = "write" /\ agentAt[g] = a /\ r.status # "approved"
              /\ startPc' = [startPc EXCEPT ![g] = "loop"]
              /\ \A h \in Gateways \ {g} : found'[h] = found[h]
  PROVE  StandingInv'
<1> USE DEF ApprovalsTypeOK
<1> SUFFICES ASSUME NEW h \in Gateways
             PROVE  /\ allowed'[h] \subseteq wasStanding'[h]
                    /\ \A b \in Agents :
                         /\ Starting(h)' /\ Approves(row[b], h, b)' => b \in wasStanding'[h]
                         /\ InHand(h, b)' => b \in wasStanding'[h]
                         /\ Starting(h)' /\ b \in everStanding'[h] =>
                              /\ Approves(row[b], h, b)'
                              /\ b \in toRegister'[h] \/ b \in allowed'[h] \/ InHand(h, b)'
                    /\ startPc'[h] = "up" => everStanding'[h] \subseteq allowed'[h]
  BY DEF StandingInv, Approves
<1>1. /\ allowed[h] \subseteq wasStanding[h]
      /\ \A b \in Agents :
           /\ Starting(h) /\ Approves(row[b], h, b) => b \in wasStanding[h]
           /\ InHand(h, b) => b \in wasStanding[h]
           /\ Starting(h) /\ b \in everStanding[h] =>
                /\ Approves(row[b], h, b)
                /\ b \in toRegister[h] \/ b \in allowed[h] \/ InHand(h, b)
      /\ startPc[h] = "up" => everStanding[h] \subseteq allowed[h]
  BY DEF StandingInv
<1>2. /\ wasStanding'[h] = IF Starting(h) /\ Approves(r, h, a) THEN wasStanding[h] \union {a}
                                                                ELSE wasStanding[h]
      /\ everStanding'[h] = IF Starting(h) /\ ~Approves(r, h, a) THEN everStanding[h] \ {a}
                                                                  ELSE everStanding[h]
      /\ \A b \in Agents : row'[b] = IF b = a THEN r ELSE row[b]
  BY DEF Put
<1>3. Starting(h)' <=> Starting(h)
  BY DEF Starting
<1>4. startPc'[h] = "up" <=> startPc[h] = "up"
  OBVIOUS
<1>5. \A b \in Agents : InHand(h, b)' => InHand(h, b)
  BY DEF InHand, Approves
<1>6. \A b \in Agents : InHand(h, b) =>
        \/ InHand(h, b)'
        \/ b = a /\ Starting(h) /\ ~Approves(r, h, a)
  BY DEF InHand, Approves, Starting
<1>7. \A b \in Agents : Approves(row[b], h, b)' <=> Approves(IF b = a THEN r ELSE row[b], h, b)
  BY <1>2 DEF Approves
<1> QED
  BY <1>1, <1>2, <1>3, <1>4, <1>5, <1>6, <1>7

(* StandingInv, step by step.                                                *)
LEMMA StandingStep ==
  ASSUME ApprovalsTypeOK, StandingInv, [ApprovalsNext]_approvalsVars
  PROVE  StandingInv'
<1> USE DEF ApprovalsTypeOK
<1>1. CASE UNCHANGED approvalsVars
  BY <1>1 DEF approvalsVars, StandingInv, InHand, Starting, Approves
<1>2. ASSUME NEW g \in Gateways, StartGateway(g)
      PROVE  StandingInv'
  <2>1. /\ UNCHANGED <<row, agentAt, found>>
        /\ toRegister' = [toRegister EXCEPT ![g] = Agents]
        /\ allowed' = [allowed EXCEPT ![g] = {}]
        /\ startPc' = [startPc EXCEPT ![g] = "loop"]
        /\ \A h \in Gateways \ {g} : /\ config'[h] = config[h]
                                     /\ wasStanding'[h] = wasStanding[h]
                                     /\ everStanding'[h] = everStanding[h]
    BY <1>2 DEF StartGateway
  <2>2. \A a \in Agents : (a \in wasStanding'[g] <=> Approves(row[a], g, a)')
                        /\ (a \in everStanding'[g] <=> Approves(row[a], g, a)')
    BY <1>2 DEF StartGateway, Approves
  <2> QED
    BY <2>1, <2>2 DEF StandingInv, InHand, Starting, Approves
<1>3. ASSUME NEW g \in Gateways, Select(g)
      PROVE  StandingInv'
  <2>1. PICK a \in toRegister[g] :
          /\ agentAt' = [agentAt EXCEPT ![g] = a]
          /\ found' = [found EXCEPT ![g] = row[a]]
          /\ toRegister' = [toRegister EXCEPT ![g] = @ \ {a}]
    BY <1>3 DEF Select
  <2>2. /\ startPc[g] = "loop" /\ startPc' = [startPc EXCEPT ![g] = "write"]
        /\ UNCHANGED <<row, wasStanding, everStanding, config, allowed>>
    BY <1>3 DEF Select, NothingPut
  <2> QED
    BY <2>1, <2>2 DEF StandingInv, InHand, Starting, Approves
<1>4. ASSUME NEW g \in Gateways, RegisterNew(g) \/ RegisterChanged(g)
      PROVE  StandingInv'
  <2>1. /\ Put(agentAt[g], PendingRow(g)) /\ startPc[g] = "write"
        /\ UNCHANGED <<config, toRegister, agentAt, allowed>>
        /\ startPc' = [startPc EXCEPT ![g] = "loop"] /\ found' = [found EXCEPT ![g] = NoRow]
    BY <1>4 DEF RegisterNew, RegisterChanged, Registered
  <2>2. agentAt[g] \in Agents /\ PendingRow(g).status # "approved"
    BY DEF PendingRow
  <2> QED
    BY <2>1, <2>2, StandingAfterPut
<1>5. ASSUME NEW g \in Gateways, RegisterKnown(g)
      PROVE  StandingInv'
  <2>1. /\ startPc[g] = "write" /\ startPc' = [startPc EXCEPT ![g] = "loop"]
        /\ found' = [found EXCEPT ![g] = NoRow]
        /\ UNCHANGED <<row, wasStanding, everStanding, config, toRegister, agentAt>>
        /\ allowed' = [allowed EXCEPT ![g] = IF Admits(g) THEN @ \union {agentAt[g]} ELSE @]
        /\ agentAt[g] \in Agents
    BY <1>5 DEF RegisterKnown, Registered, NothingPut
  <2>2. Admits(g) <=> InHand(g, agentAt[g])
    BY <1>5, <2>1 DEF RegisterKnown, Admits, FirstSight, Changed, PrintHere, InHand, Approves
  <2>3. allowed'[g] \subseteq wasStanding[g]
    BY <2>1, <2>2 DEF StandingInv
  <2>4. \A a \in Agents : InHand(g, a) => a \in allowed'[g]
    BY <2>1, <2>2 DEF InHand
  <2>5. allowed[g] \subseteq allowed'[g] /\ \A h \in Gateways \ {g} : allowed'[h] = allowed[h]
    BY <2>1
  <2>6. \A h \in Gateways, a \in Agents : Approves(row[a], h, a)' <=> Approves(row[a], h, a)
    BY <2>1 DEF Approves
  <2>7. \A h \in Gateways : /\ Starting(h)' <=> Starting(h)
                            /\ startPc'[h] = "up" <=> startPc[h] = "up"
    BY <2>1 DEF Starting
  <2>8. \A h \in Gateways \ {g}, a \in Agents : InHand(h, a)' <=> InHand(h, a)
    BY <2>1 DEF InHand, Approves
  <2>9. \A a \in Agents : ~InHand(g, a)'
    BY <2>1 DEF InHand
  <2> SUFFICES ASSUME NEW h \in Gateways
               PROVE  /\ allowed'[h] \subseteq wasStanding[h]
                      /\ \A a \in Agents :
                           /\ Starting(h) /\ Approves(row[a], h, a) => a \in wasStanding[h]
                           /\ InHand(h, a)' => a \in wasStanding[h]
                           /\ Starting(h) /\ a \in everStanding[h] =>
                                /\ Approves(row[a], h, a)
                                /\ a \in toRegister[h] \/ a \in allowed'[h] \/ InHand(h, a)'
                      /\ startPc[h] = "up" => everStanding[h] \subseteq allowed'[h]
    BY <2>1, <2>6, <2>7 DEF StandingInv
  <2>10. CASE h = g
    BY <2>3, <2>4, <2>5, <2>9, <2>10 DEF StandingInv
  <2>11. CASE h # g
    BY <2>5, <2>8, <2>11 DEF StandingInv
  <2> QED
    BY <2>10, <2>11
<1>6. ASSUME NEW g \in Gateways, StartFails(g) \/ StopGateway(g)
      PROVE  StandingInv'
  <2>1. /\ startPc' = [startPc EXCEPT ![g] = "off"]
        /\ allowed' = [allowed EXCEPT ![g] = {}] /\ toRegister' = [toRegister EXCEPT ![g] = {}]
        /\ found' = [found EXCEPT ![g] = NoRow]
        /\ wasStanding' = [wasStanding EXCEPT ![g] = {}]
        /\ everStanding' = [everStanding EXCEPT ![g] = {}]
        /\ UNCHANGED <<row, config, agentAt>>
    BY <1>6 DEF StartFails, StopGateway, Down
  <2>2. /\ allowed'[g] \subseteq wasStanding'[g] /\ startPc'[g] # "up" /\ ~Starting(g)'
        /\ \A a \in Agents : ~InHand(g, a)'
    BY <2>1 DEF InHand, Starting
  <2>3. \A h \in Gateways \ {g} :
          /\ Starting(h)' <=> Starting(h)
          /\ startPc'[h] = startPc[h] /\ allowed'[h] = allowed[h] /\ toRegister'[h] = toRegister[h]
          /\ wasStanding'[h] = wasStanding[h] /\ everStanding'[h] = everStanding[h]
    BY <2>1 DEF Starting
  <2> SUFFICES ASSUME NEW h \in Gateways
               PROVE  /\ allowed'[h] \subseteq wasStanding'[h]
                      /\ \A a \in Agents :
                           /\ Starting(h)' /\ Approves(row[a], h, a)' => a \in wasStanding'[h]
                           /\ InHand(h, a)' => a \in wasStanding'[h]
                           /\ Starting(h)' /\ a \in everStanding'[h] =>
                                /\ Approves(row[a], h, a)'
                                /\ a \in toRegister'[h] \/ a \in allowed'[h] \/ InHand(h, a)'
                      /\ startPc'[h] = "up" => everStanding'[h] \subseteq allowed'[h]
    BY DEF StandingInv
  <2>6. CASE h = g
    BY <2>2, <2>6
  <2>7. CASE h # g
    <3>1. /\ Starting(h)' <=> Starting(h)
          /\ startPc'[h] = startPc[h] /\ allowed'[h] = allowed[h] /\ toRegister'[h] = toRegister[h]
          /\ wasStanding'[h] = wasStanding[h] /\ everStanding'[h] = everStanding[h]
      BY <2>3, <2>7
    <3>2. /\ allowed[h] \subseteq wasStanding[h]
          /\ startPc[h] = "up" => everStanding[h] \subseteq allowed[h]
      BY DEF StandingInv
    <3>3. \A a \in Agents :
            /\ InHand(h, a)' <=> InHand(h, a)
            /\ Approves(row[a], h, a)' <=> Approves(row[a], h, a)
      BY <2>1, <2>7 DEF InHand, Approves
    <3>4. \A a \in Agents :
            /\ Starting(h) /\ Approves(row[a], h, a) => a \in wasStanding[h]
            /\ InHand(h, a) => a \in wasStanding[h]
            /\ Starting(h) /\ a \in everStanding[h] =>
                 /\ Approves(row[a], h, a)
                 /\ a \in toRegister[h] \/ a \in allowed[h] \/ InHand(h, a)
      BY DEF StandingInv
    <3> QED
      BY <3>1, <3>2, <3>3, <3>4
  <2> QED
    BY <2>6, <2>7
<1>7. ASSUME NEW g \in Gateways, BuildRegistry(g)
      PROVE  StandingInv'
  <2>1. /\ startPc[g] = "loop" /\ toRegister[g] = {} /\ startPc' = [startPc EXCEPT ![g] = "up"]
        /\ UNCHANGED <<row, wasStanding, everStanding, config, toRegister, agentAt, found, allowed>>
    BY <1>7 DEF BuildRegistry, NothingPut
  <2>2. everStanding[g] \subseteq allowed[g]
    BY <2>1 DEF StandingInv, InHand, Starting
  <2> QED
    BY <2>1, <2>2 DEF StandingInv, InHand, Starting, Approves
<1>8. ASSUME NEW c \in Commands, SetUpdate(c) \/ SetInsert(c)
      PROVE  StandingInv'
  <2>1. PICK print : Decide(c, command[c].agent, print)
    BY <1>8 DEF SetUpdate, SetInsert
  <2>2. command[c].agent \in Agents
    OBVIOUS
  <2> QED
    BY <2>1, <2>2, StandingAfterPut DEF Decide
<1>9. ASSUME NEW c \in Commands, SetMissed(c) \/ SetFails(c)
      PROVE  StandingInv'
  BY <1>9 DEF SetMissed, SetFails, NothingPut, Untouched, StandingInv, InHand, Starting, Approves
<1> QED
  BY <1>1, <1>2, <1>3, <1>4, <1>5, <1>6, <1>7, <1>8, <1>9 DEF ApprovalsNext, StartStep, SetStep

(* The conjunction holds for ever.                                           *)
LEMMA ApprovalsInductive == ApprovalsSpec => []ApprovalsInv
<1>1. ApprovalsInit => ApprovalsInv
  <2> SUFFICES ASSUME ApprovalsInit PROVE ApprovalsInv
    OBVIOUS
  <2>1. ApprovalsTypeOK
    BY ApprovalsAssumption DEF ApprovalsInit, ApprovalsTypeOK, RowType, NoRow, Status
  <2>2. ConsentInv
    BY DEF ApprovalsInit, ConsentInv, Consent, NoRow
  <2>3. StandingInv
    BY DEF ApprovalsInit, StandingInv, InHand, Starting
  <2> QED
    BY <2>1, <2>2, <2>3 DEF ApprovalsInv
<1>2. ApprovalsInv /\ [ApprovalsNext]_approvalsVars => ApprovalsInv'
  BY TypeStep, ConsentStep, StandingStep DEF ApprovalsInv
<1> QED
  BY <1>1, <1>2, PTL DEF ApprovalsSpec

(* The types of the table, of the starts and of the commands.                *)
THEOREM ApprovalsTypeCorrect == ApprovalsSpec => []ApprovalsTypeOK
<1>1. ApprovalsInv => ApprovalsTypeOK
  BY DEF ApprovalsInv
<1> QED
  BY <1>1, ApprovalsInductive, PTL

(* Consent: no interleaving of starts and commands makes a gateway admit     *)
(* what was not approved as it is.                                           *)
THEOREM OnlyApproved == ApprovalsSpec => []Consent
<1>1. ApprovalsInv => Consent
  BY DEF ApprovalsInv, ConsentInv
<1> QED
  BY <1>1, ApprovalsInductive, PTL

(* AdmitsStanding: who is admitted was approved at some instant of the       *)
(* start, and who was so at every instant is admitted.                       *)
THEOREM OnlyStanding == ApprovalsSpec => []AdmitsStanding
<1>1. ApprovalsInv => AdmitsStanding
  BY DEF ApprovalsInv, StandingInv, AdmitsStanding
<1> QED
  BY <1>1, ApprovalsInductive, PTL

-----------------------------------------------------------------------------
(* The journal                                                               *)

TableInv ==
  /\ events \subseteq Event /\ IsFiniteSet(events)
  /\ lastId \in Nat /\ stamps \in Seq(Nat) /\ Len(stamps) = lastId
  /\ \A e \in events : e.id <= lastId /\ stamps[e.id] = e.ts
  /\ clock \in Nat /\ latest \in Nat /\ clock <= latest
  /\ told \in Seq(Nat)
  /\ \A i \in 1 .. Len(told) : told[i] <= lastId

JournalInv == TableInv /\ SeqsRise /\ KeptNewest

-----------------------------------------------------------------------------
(* OldestOf: an event older than one it takes is taken.                      *)
LEMMA OldestGoFirst ==
  ASSUME NEW T \in SUBSET Event, IsFiniteSet(T), NEW e \in T, NEW f \in OldestOf(T),
         e.id <= f.id
  PROVE  e \in OldestOf(T)
<1> DEFINE BeforeE == {g \in T : g.id < e.id}
           BeforeF == {g \in T : g.id < f.id}
<1>1. e.id \in Nat /\ f.id \in Nat /\ \A g \in T : g.id \in Nat
  BY DEF OldestOf, Event
<1>2. BeforeE \subseteq BeforeF
  BY <1>1
<1>3. IsFiniteSet(BeforeF)
  BY FS_Subset
<1>4. Cardinality(BeforeE) <= Cardinality(BeforeF)
  BY <1>2, <1>3, FS_Subset
<1>5. Cardinality(BeforeE) \in Nat /\ Cardinality(BeforeF) \in Nat
  BY <1>2, <1>3, FS_Subset, FS_CardinalityType
<1>6. Cardinality(BeforeF) < Batch
  BY DEF OldestOf
<1> HIDE DEF BeforeE, BeforeF
<1>7. Cardinality(BeforeE) < Batch
  BY <1>4, <1>5, <1>6, JournalAssumption
<1> QED
  BY <1>7 DEF OldestOf, BeforeE

(* cleanup: what it removes has expired or is older than all it leaves.      *)
LEMMA CleanUpRemoves ==
  ASSUME NEW T \in SUBSET Event, IsFiniteSet(T), NEW pages, NEW L \in CleanedUp(T, pages)
  PROVE  /\ L \subseteq T /\ IsFiniteSet(L)
         /\ \A g \in T \ L : Expired(g) \/ \A e \in L : g.id < e.id
<1>1. PICK U \in {T, {e \in T : ~Expired(e)}} : L \in {U, U \ OldestOf(U)}
  BY DEF CleanedUp
<1>2. U \subseteq T /\ L \subseteq U /\ \A g \in T \ U : Expired(g)
  BY <1>1
<1>3. IsFiniteSet(U) /\ IsFiniteSet(L)
  BY <1>2, FS_Subset
<1>4. ASSUME NEW g \in U \ L, NEW e \in L
      PROVE  g.id < e.id
  <2>1. L = U \ OldestOf(U) /\ g \in OldestOf(U) /\ e \in U /\ e \notin OldestOf(U)
    BY <1>1, <1>2, <1>4
  <2>2. ~(e.id <= g.id)
    BY <1>2, <1>3, <2>1, OldestGoFirst
  <2>3. e.id \in Nat /\ g.id \in Nat
    BY <1>2, <2>1 DEF Event
  <2> QED
    BY <2>2, <2>3
<1> QED
  BY <1>2, <1>3, <1>4

(* MaxId: the largest id there is.                                           *)
LEMMA MaxIdIs ==
  ASSUME NEW T \in SUBSET Event, NEW n \in T, \A e \in T : e.id <= n.id
  PROVE  MaxId(T) = n.id
<1> DEFINE Ids == {e.id : e \in T}
<1>1. n.id \in Ids /\ Ids \subseteq Nat /\ \A x \in Ids : n.id >= x
  BY DEF Event
<1>2. Max(Ids) = CHOOSE x \in Ids : \A y \in Ids : x >= y
  BY DEF Max
<1>3. Max(Ids) \in Ids /\ \A y \in Ids : Max(Ids) >= y
  BY <1>1, <1>2
<1> DEFINE m == Max(Ids)
<1>4. m \in Nat /\ n.id \in Nat /\ m >= n.id /\ n.id >= m
  BY <1>1, <1>3
<1> HIDE DEF m
<1>5. m = n.id
  BY <1>4
<1> QED
  BY <1>5 DEF MaxId, m, Ids

-----------------------------------------------------------------------------
(* The INSERT and its clean-up keep the table's invariant; the new event is  *)
(* the last, and when it is gone nothing is left.                            *)
LEMMA Inserted ==
  ASSUME TableInv, KeptNewest, Insert, UNCHANGED <<clock, latest>>
  PROVE  /\ events' \subseteq Event /\ IsFiniteSet(events')
         /\ lastId' = lastId + 1 /\ stamps' \in Seq(Nat) /\ Len(stamps') = lastId'
         /\ \A e \in events' : e.id <= lastId' /\ stamps'[e.id] = e.ts
         /\ MaxId(events') \in {0, lastId'}
         /\ KeptNewest'
<1> USE DEF TableInv
<1> DEFINE new == [id |-> lastId + 1, ts |-> clock]
           all == events \union {new}
<1>1. lastId' = lastId + 1 /\ stamps' = Append(stamps, clock)
  BY DEF Insert, NextId
<1>2. PICK pages : events' \in CleanedUp(all, pages)
  BY DEF Insert, NextId
<1>3. new \in Event /\ all \in SUBSET Event /\ IsFiniteSet(all)
  <2>1. new \in Event
    BY DEF Event
  <2> HIDE DEF new
  <2>2. IsFiniteSet(all)
    BY FS_AddElement
  <2> QED
    BY <2>1, <2>2
<1>4. /\ events' \subseteq all /\ IsFiniteSet(events')
      /\ \A g \in all \ events' : Expired(g) \/ \A e \in events' : g.id < e.id
  BY <1>2, <1>3, CleanUpRemoves
<1>5. stamps' \in Seq(Nat) /\ Len(stamps') = lastId' /\ stamps'[lastId'] = clock
  BY <1>1
<1>6. \A i \in 1 .. lastId : stamps'[i] = stamps[i]
  BY <1>1
<1>7. \A e \in all : e.id \in 1 .. lastId' /\ stamps'[e.id] = e.ts
  <2>1. new.id = lastId' /\ new.ts = clock
    BY <1>1
  <2>2. \A e \in events : e.id \in 1 .. lastId /\ stamps[e.id] = e.ts
    BY DEF Event
  <2> HIDE DEF new
  <2> QED
    BY <1>1, <1>5, <1>6, <2>1, <2>2
<1>8. ~Expired(new)
  BY JournalAssumption DEF Expired
<1>9. MaxId(events') \in {0, lastId'}
  <2>1. CASE new \in events'
    <3>1. \A e \in events' : e.id <= new.id
      BY <1>1, <1>4, <1>7
    <3>2. events' \in SUBSET Event
      BY <1>3, <1>4
    <3> HIDE DEF new, all
    <3>3. MaxId(events') = new.id
      BY <2>1, <3>1, <3>2, MaxIdIs
    <3> QED
      BY <1>1, <3>3 DEF new
  <2>2. CASE new \notin events'
    <3>1. \A e \in events' : lastId' < e.id
      BY <1>1, <1>4, <1>8, <2>2
    <3>2. \A e \in events' : e.id \in Nat /\ e.id <= lastId'
      BY <1>4, <1>7
    <3>3. lastId' \in Nat
      BY <1>1
    <3>4. \A e \in events' : FALSE
      BY <3>1, <3>2, <3>3
    <3>5. events' = {}
      BY <3>4
    <3> QED
      BY <3>5 DEF MaxId
  <2> QED
    BY <2>1, <2>2
<1>10. ASSUME NEW e \in events', NEW i \in 1 .. Len(stamps'), e.id < i,
              \A f \in events' : f.id # i
       PROVE  Retention > 0 /\ stamps'[i] + Retention < latest
  <2>1. e \in all /\ i \in 1 .. lastId'
    BY <1>4, <1>5, <1>10
  <2>2. CASE \E g \in all : g.id = i
    <3>1. PICK g \in all : g.id = i
      BY <2>2
    <3>2. Expired(g)
      BY <1>4, <1>7, <1>10, <2>1, <3>1
    <3> QED
      BY <1>3, <1>7, <3>1, <3>2, JournalAssumption DEF Expired, Event
  <2>3. CASE \A g \in all : g.id # i
    <3>1. new \in all /\ new.id = lastId'
      BY <1>1
    <3>2. lastId' \in Nat /\ e.id < i /\ i <= lastId'
      BY <1>1, <1>10, <2>1
    <3> HIDE DEF new
    <3>3. i # lastId' /\ e # new
      BY <2>1, <2>3, <3>1, <3>2
    <3>4. e \in events /\ i \in 1 .. Len(stamps) /\ \A f \in events : f.id # i
      BY <1>1, <2>1, <2>3, <3>3
    <3>5. Retention > 0 /\ stamps[i] + Retention < latest
      BY <1>10, <3>4 DEF KeptNewest
    <3> QED
      BY <1>6, <3>4, <3>5
  <2> QED
    BY <2>2, <2>3
<1>11. KeptNewest'
  BY <1>10 DEF KeptNewest
<1> QED
  BY <1>1, <1>3, <1>4, <1>5, <1>7, <1>9, <1>11

(* The conjunction holds for ever.                                           *)
LEMMA JournalInductive == JournalSpec => []JournalInv
<1>1. JournalInit => JournalInv
  <2> SUFFICES ASSUME JournalInit PROVE JournalInv
    OBVIOUS
  <2>1. TableInv
    BY FS_EmptySet, JournalAssumption DEF JournalInit, TableInv
  <2> QED
    BY <2>1 DEF JournalInit, JournalInv, SeqsRise, KeptNewest
<1>2. JournalInv /\ [JournalNext]_journalVars => JournalInv'
  <2> SUFFICES ASSUME JournalInv, [JournalNext]_journalVars
               PROVE  JournalInv'
    OBVIOUS
  <2> USE DEF JournalInv
  <2>1. ASSUME UNCHANGED <<events, lastId, stamps, told, latest>>,
               clock' \in Nat, clock' <= latest
        PROVE  JournalInv'
    BY <2>1 DEF TableInv, SeqsRise, KeptNewest
  <2>2. ASSUME UNCHANGED <<table, time>>
        PROVE  JournalInv'
    BY <2>1, <2>2 DEF table, time, TableInv
  <2>3. ASSUME Insert, UNCHANGED <<told, time>>
        PROVE  JournalInv'
    <3>1. \A i \in 1 .. Len(told) : told[i] <= lastId'
      BY <2>3, Inserted DEF time, TableInv
    <3> QED
      BY <2>3, <3>1, Inserted DEF time, TableInv, SeqsRise
  <2>4. ASSUME Appended, UNCHANGED time
        PROVE  JournalInv'
    <3>1. Insert /\ told' = Append(told, MaxId(events')) /\ UNCHANGED <<clock, latest>>
      BY <2>4 DEF Appended, time
    <3>2. MaxId(events') \in {0, lastId'} /\ lastId' = lastId + 1 /\ KeptNewest'
      BY <3>1, Inserted
    <3>3. told \in Seq(Nat) /\ lastId \in Nat /\ \A i \in 1 .. Len(told) : told[i] \in Nat /\ told[i] <= lastId
      BY DEF TableInv
    <3>4. /\ told' \in Seq(Nat) /\ Len(told') = Len(told) + 1
          /\ told'[Len(told) + 1] \in {0, lastId + 1}
          /\ \A i \in 1 .. Len(told) : told'[i] = told[i]
      BY <3>1, <3>2, <3>3
    <3>5. \A i \in 1 .. Len(told') : told'[i] <= lastId'
      BY <3>2, <3>3, <3>4
    <3>6. TableInv'
      BY <3>1, <3>4, <3>5, Inserted DEF TableInv
    <3>7. SeqsRise'
      <4>1. ASSUME NEW i \in 1 .. Len(told'), NEW j \in 1 .. Len(told'),
                   i < j, told'[i] # 0, told'[j] # 0
            PROVE  told'[i] < told'[j]
        <5>1. i \in 1 .. Len(told) /\ told'[i] = told[i]
          BY <3>3, <3>4, <4>1
        <5>2. CASE j \in 1 .. Len(told)
          BY <3>4, <4>1, <5>1, <5>2 DEF SeqsRise
        <5>3. CASE j = Len(told) + 1
          BY <3>3, <3>4, <4>1, <5>1, <5>3
        <5> QED
          BY <3>3, <3>4, <5>2, <5>3
      <4> QED
        BY <4>1 DEF SeqsRise
    <3> QED
      BY <3>2, <3>6, <3>7
  <2>5. ASSUME AppendFails, UNCHANGED time
        PROVE  JournalInv'
    BY <2>2, <2>3, <2>5 DEF AppendFails
  <2>6. CASE StartUp
    <3>1. /\ events' \in CleanedUp(events, dbPages)
          /\ UNCHANGED <<lastId, stamps, told, clock, latest>>
      BY <2>6 DEF StartUp, time
    <3>2. /\ events' \subseteq events /\ IsFiniteSet(events')
          /\ \A g \in events \ events' : Expired(g) \/ \A e \in events' : g.id < e.id
      BY <3>1, CleanUpRemoves DEF TableInv
    <3>3. TableInv'
      BY <3>1, <3>2 DEF TableInv
    <3>4. ASSUME NEW e \in events', NEW i \in 1 .. Len(stamps), e.id < i,
                 \A f \in events' : f.id # i
          PROVE  Retention > 0 /\ stamps[i] + Retention < latest
      <4>1. CASE \E g \in events : g.id = i
        <5>1. PICK g \in events : g.id = i
          BY <4>1
        <5>2. g.ts = stamps[i] /\ g.ts \in Nat /\ g.id \in Nat /\ e.id \in Nat
          BY <3>2, <5>1 DEF TableInv, Event
        <5>3. Expired(g)
          BY <3>2, <3>4, <5>1, <5>2
        <5> QED
          BY <5>2, <5>3, JournalAssumption DEF Expired, TableInv
      <4>2. CASE \A g \in events : g.id # i
        BY <3>2, <3>4, <4>2 DEF KeptNewest
      <4> QED
        BY <4>1, <4>2
    <3>5. KeptNewest'
      BY <3>1, <3>4 DEF KeptNewest
    <3>6. SeqsRise'
      BY <3>1 DEF SeqsRise
    <3> QED
      BY <3>3, <3>5, <3>6
  <2>7. CASE Note \/ StartMonitor \/ Die \/ Wake \/ Report \/ Checkpoint
    BY <2>2, <2>7 DEF Note, StartMonitor, Die, Wake, Report, Checkpoint
  <2>8. CASE Noted \/ NoteFails \/ Reported
    BY <2>4, <2>5, <2>8 DEF Noted, NoteFails, Reported
  <2>9. CASE Tick
    <3>1. clock \in Nat /\ latest \in Nat /\ clock <= latest
      BY DEF TableInv
    <3>2. latest' = Max({latest, clock + 1}) /\ clock' = clock + 1
      BY <2>9 DEF Tick
    <3>3. latest' \in {latest, clock + 1} /\ latest' >= latest /\ latest' >= clock + 1
      BY <3>1, <3>2 DEF Max
    <3>4. UNCHANGED <<events, lastId, stamps, told>>
      BY <2>9 DEF Tick, table
    <3>5. TableInv' /\ SeqsRise'
      <4>1. clock' \in Nat /\ latest' \in Nat /\ clock' <= latest'
        BY <3>1, <3>2, <3>3
      <4>2. TableInv'
        BY <3>4, <4>1 DEF TableInv
      <4>3. SeqsRise'
        BY <3>4 DEF SeqsRise
      <4> QED
        BY <4>2, <4>3
    <3>6. \A i \in 1 .. Len(stamps) : stamps[i] \in Nat
      BY DEF TableInv
    <3>7. KeptNewest'
      BY <3>1, <3>3, <3>4, <3>6, JournalAssumption DEF KeptNewest
    <3> QED
      BY <3>5, <3>7
  <2>10. CASE SetBack
    <3>1. clock' \in Nat /\ clock' <= latest
      BY <2>10, JournalAssumption DEF SetBack, TableInv
    <3> QED
      BY <2>1, <2>10, <3>1 DEF SetBack, table
  <2>11. CASE UNCHANGED journalVars
    BY <2>2, <2>11 DEF journalVars, table, time
  <2> QED
    BY <2>6, <2>7, <2>8, <2>9, <2>10, <2>11 DEF JournalNext, MonitorStep
<1> QED
  BY <1>1, <1>2, PTL DEF JournalSpec

(* SeqsRise: whatever crashes, restarts and clean-ups there are, what append *)
(* returns grows, or is 0 for an event that fell to its own clean-up.        *)
THEOREM AnswersRise == JournalSpec => []SeqsRise
<1>1. JournalInv => SeqsRise
  BY DEF JournalInv
<1> QED
  BY <1>1, JournalInductive, PTL

(* KeptNewest: an event is gone before an older one only by the retention,   *)
(* for a clock that may be set back as well.                                 *)
THEOREM NewestKept == JournalSpec => []KeptNewest
<1>1. JournalInv => KeptNewest
  BY DEF JournalInv
<1> QED
  BY <1>1, JournalInductive, PTL

-----------------------------------------------------------------------------
(* The log directory                                                         *)

Pruning == prunePc \in {"zip", "zipWrite", "zipUnlink", "remove"}

(* There is today's file and none of a later day.  It was created last, but  *)
(* for the archive: at midnight the appender keeps it.                       *)
DayInv ==
  /\ today \in Files /\ Files \subseteq 0 .. today
  /\ Younger(today) \subseteq {Archive}

(* What the prune holds for the active file is today's, or yesterday's after *)
(* a midnight in its middle; that is there and was written to before today's.*)
PruneInv ==
  /\ prunePc = "collect" => IsNewest(today)
  /\ Pruning =>
       /\ active \in Files \ {Archive} /\ active <= today
       /\ ~rolled => active = today
       /\ active # today => <<active, today>> \in written
       /\ \A i \in 1 .. Len(toZip) : toZip[i] \notin {active, today} /\ toZip[i] <= today
  /\ prunePc \in {"zipWrite", "zipUnlink"} => toZip # <<>>
  /\ prunePc = "remove" => victim \notin {active, today} /\ victim <= today

LogFilesInv == LogFilesTypeOK /\ DayInv /\ PruneInv

-----------------------------------------------------------------------------
(* Among: an order of S orders what is left of S.                            *)
LEMMA AmongOrders ==
  ASSUME NEW order, NEW S, NEW T \in SUBSET S, Orders(order, S)
  PROVE  Orders(Among(order, T), T)
BY DEF Orders, Among

(* PutLast: the others stay in their order, and n comes after them.          *)
LEMMA PutLastOrders ==
  ASSUME NEW order, NEW S, NEW n, Orders(order, S)
  PROVE  /\ Orders(PutLast(order, S, n), S \cup {n})
         /\ \A j, k \in S \ {n} : <<j, k>> \in PutLast(order, S, n) <=> <<j, k>> \in order
         /\ \A k \in S \ {n} : <<k, n>> \in PutLast(order, S, n)
<1> DEFINE new == PutLast(order, S, n)
<1>1. \A j, k : <<j, k>> \in new <=> /\ j \in S \ {n} /\ k \in S \cup {n}
                                     /\ k # n => <<j, k>> \in order
  BY DEF PutLast, Among, Orders
<1>2. new \subseteq (S \cup {n}) \X (S \cup {n})
  BY DEF PutLast, Among
<1> HIDE DEF new
<1>3. Orders(new, S \cup {n})
  <2>1. ASSUME NEW j \in S \cup {n}, NEW k \in S \cup {n}, j # k
        PROVE  <<j, k>> \in new <=> <<k, j>> \notin new
    BY <1>1, <2>1 DEF Orders
  <2>2. ASSUME NEW j \in S \cup {n}
        PROVE  <<j, j>> \notin new
    BY <1>1, <2>2 DEF Orders
  <2>3. ASSUME NEW i \in S \cup {n}, NEW j \in S \cup {n}, NEW k \in S \cup {n},
               <<i, j>> \in new, <<j, k>> \in new
        PROVE  <<i, k>> \in new
    BY <1>1, <2>3 DEF Orders
  <2> QED
    BY <1>2, <2>1, <2>2, <2>3 DEF Orders
<1>4. \A j, k \in S \ {n} : <<j, k>> \in new <=> <<j, k>> \in order
  BY <1>1
<1>5. \A k \in S \ {n} : <<k, n>> \in new
  BY <1>1
<1> QED
  BY <1>3, <1>4, <1>5 DEF new

(* WriteFile: the file is there, newest of all; others stay as they are.     *)
LEMMA Wrote ==
  ASSUME LogFilesTypeOK, NEW n \in Names, NEW s \in 1 .. MaxSize, WriteFile(n, s)
  PROVE  /\ size' \in [Names -> 0 .. MaxSize] /\ Files' = Files \cup {n}
         /\ Orders(written', Files') /\ Orders(born', Files')
         /\ \A j, k \in Files \ {n} : <<j, k>> \in written' <=> <<j, k>> \in written
         /\ \A k \in Files \ {n} : <<k, n>> \in written'
         /\ n \in Files => born' = born
         /\ n \notin Files => \A j, k \in Files : <<j, k>> \in born' <=> <<j, k>> \in born
<1>1. /\ size' = [size EXCEPT ![n] = s]
      /\ written' = PutLast(written, Files, n)
      /\ born' = IF n \in Files THEN born ELSE PutLast(born, Files, n)
  BY DEF WriteFile
<1>2. size \in [Names -> 0 .. MaxSize] /\ Orders(written, Files) /\ Orders(born, Files)
  BY DEF LogFilesTypeOK
<1>3. size' \in [Names -> 0 .. MaxSize] /\ Files' = Files \cup {n}
  BY <1>1, <1>2, LogFilesAssumption DEF Files
<1>4. /\ Orders(written', Files')
      /\ \A j, k \in Files \ {n} : <<j, k>> \in written' <=> <<j, k>> \in written
      /\ \A k \in Files \ {n} : <<k, n>> \in written'
  BY <1>1, <1>2, <1>3, PutLastOrders
<1>5. CASE n \in Files
  <2>1. born' = born /\ Files' = Files
    BY <1>1, <1>3, <1>5
  <2> QED
    BY <1>2, <1>3, <1>4, <1>5, <2>1
<1>6. CASE n \notin Files
  <2>1. born' = PutLast(born, Files, n) /\ Files \ {n} = Files
    BY <1>1, <1>6
  <2>2. /\ Orders(PutLast(born, Files, n), Files \cup {n})
        /\ \A j, k \in Files \ {n} : <<j, k>> \in PutLast(born, Files, n) <=> <<j, k>> \in born
    BY <1>2, PutLastOrders
  <2> QED
    BY <1>3, <1>4, <1>6, <2>1, <2>2
<1> QED
  BY <1>5, <1>6

(* Unlink: the file is gone; others stay as they are.                        *)
LEMMA Unlinked ==
  ASSUME LogFilesTypeOK, NEW n \in Names, Unlink({n})
  PROVE  /\ size' \in [Names -> 0 .. MaxSize] /\ Files' = Files \ {n}
         /\ Orders(written', Files') /\ Orders(born', Files')
         /\ \A j, k \in Files' : /\ <<j, k>> \in written' <=> <<j, k>> \in written
                                 /\ <<j, k>> \in born' <=> <<j, k>> \in born
<1>1. /\ size' = [k \in Names |-> IF k \in {n} THEN 0 ELSE size[k]]
      /\ written' = Among(written, Files \ {n})
      /\ born' = Among(born, Files \ {n})
  BY DEF Unlink
<1>2. size \in [Names -> 0 .. MaxSize] /\ Orders(written, Files) /\ Orders(born, Files)
  BY DEF LogFilesTypeOK
<1>3. size' \in [Names -> 0 .. MaxSize] /\ Files' = Files \ {n}
  BY <1>1, <1>2, LogFilesAssumption DEF Files
<1>4. Orders(written', Files') /\ Orders(born', Files')
  BY <1>1, <1>2, <1>3, AmongOrders
<1> QED
  BY <1>1, <1>3, <1>4 DEF Among

(* What Collect makes a list of.                                             *)
LEMMA InOrderTypes ==
  ASSUME NEW n, NEW list, list \in IF Compress THEN InOrder(Files \ {n, Archive}) ELSE {<<>>}
  PROVE  list \in Seq(Names) /\ \A i \in 1 .. Len(list) : list[i] \in Files \ {n, Archive}
<1>1. Files \subseteq Names /\ IsFiniteSet(Names)
  BY LogFilesAssumption, FS_Interval DEF Files, Names
<1>2. CASE Compress
  <2>1. PICK others : others = Files \ {n, Archive}
    OBVIOUS
  <2>2. list \in SetToSeqs(others)
    BY <1>2, <2>1 DEF InOrder
  <2>3. IsFiniteSet(others) /\ Cardinality(others) \in Nat
    BY <1>1, <2>1, FS_Subset, FS_CardinalityType
  <2>4. list \in [1 .. Cardinality(others) -> others]
    BY <2>2 DEF SetToSeqs
  <2>5. PICK k \in Nat : k = Cardinality(others)
    BY <2>3
  <2>6. list \in Seq(others) /\ Len(list) = k
    BY <2>4, <2>5
  <2> QED
    BY <1>1, <2>1, <2>6
<1>3. CASE ~Compress
  BY <1>3
<1> QED
  BY <1>2, <1>3

(* The first day.                                                            *)
LEMMA FirstDay == LogFilesInit => Files = {1} /\ LogFilesTypeOK
<1> SUFFICES ASSUME LogFilesInit PROVE Files = {1} /\ LogFilesTypeOK
  OBVIOUS
<1>1. Files = {1} /\ size \in [Names -> 0 .. MaxSize]
  <2>1. size = [n \in Names |-> IF n = 1 THEN 1 ELSE 0]
    BY DEF LogFilesInit
  <2>2. 1 \in Names /\ 0 \in 0 .. MaxSize /\ 1 \in 0 .. MaxSize
    BY LogFilesAssumption DEF Names
  <2>3. \A n \in Names : size[n] > 0 <=> n = 1
    BY <2>1
  <2> QED
    BY <2>1, <2>2, <2>3 DEF Files
<1>2. LogFilesTypeOK
  <2>1. Orders(written, Files) /\ Orders(born, Files)
    BY <1>1 DEF LogFilesInit, Orders
  <2>2. 1 \in Names \ {Archive}
    BY LogFilesAssumption DEF Names, Archive
  <2>3. today = 1 /\ active = 1 /\ victim = 1 /\ toZip = <<>> /\ prunePc = "asleep" /\ rolled = FALSE
    BY DEF LogFilesInit
  <2>4. toZip \in Seq(Names)
    BY <2>3
  <2> QED
    BY <1>1, <2>1, <2>2, <2>3, <2>4 DEF LogFilesTypeOK
<1> QED
  BY <1>1, <1>2
(* A midnight takes neither today's file nor the one before it, which the    *)
(* archive alone may be younger than.                                        *)
LEMMA TodayIsKept ==
  ASSUME LogFilesInv, MaxFiles >= 3
  PROVE  today \in Kept
<1>1. Younger(today) \subseteq {Archive} /\ today \in Files
  BY DEF LogFilesInv, DayInv
<1>2. IsFiniteSet({Archive}) /\ Cardinality({Archive}) = 1
  BY FS_Singleton
<1>3. Cardinality(Younger(today)) <= 1 /\ Cardinality(Younger(today)) \in Nat
  BY <1>1, <1>2, FS_Subset, FS_CardinalityType
<1> QED
  BY <1>1, <1>3, LogFilesAssumption DEF Kept

(* WriteFile of today's file or the archive keeps the two.                   *)
LEMMA InvWrote ==
  ASSUME LogFilesInv, NEW n \in {today, Archive}, NEW s \in 1 .. MaxSize, WriteFile(n, s),
         UNCHANGED today
  PROVE  /\ size' \in [Names -> 0 .. MaxSize] /\ Orders(written', Files') /\ Orders(born', Files')
         /\ DayInv'
         /\ active \in Files \ {Archive} /\ UNCHANGED active => active' \in Files' \ {Archive}
         /\ active \in Files \ {Archive, today} /\ <<active, today>> \in written
              => <<active, today>> \in written'
         /\ n = today => IsNewest(today)'
<1> USE DEF LogFilesInv
<1>1. today \in Names \ {Archive} /\ n \in Names /\ today \in Files
  BY LogFilesAssumption DEF LogFilesTypeOK, Names, Archive, DayInv
<1>2. /\ size' \in [Names -> 0 .. MaxSize] /\ Files' = Files \cup {n}
      /\ Orders(written', Files') /\ Orders(born', Files')
      /\ \A j, k \in Files \ {n} : <<j, k>> \in written' <=> <<j, k>> \in written
      /\ \A k \in Files \ {n} : <<k, n>> \in written'
      /\ n \in Files => born' = born
      /\ n \notin Files => \A j, k \in Files : <<j, k>> \in born' <=> <<j, k>> \in born
  BY <1>1, Wrote
<1>3. DayInv'
  <2>1. today' \in Files' /\ Files' \subseteq 0 .. today'
    BY <1>1, <1>2 DEF DayInv, LogFilesTypeOK, Names, Archive
  <2>2. Younger(today)' \subseteq {Archive}
    BY <1>1, <1>2 DEF DayInv, Younger
  <2> QED
    BY <2>1, <2>2 DEF DayInv
<1>4. active \in Files \ {Archive, today} /\ <<active, today>> \in written
        => <<active, today>> \in written'
  BY <1>1, <1>2
<1>5. n = today => IsNewest(today)'
  BY <1>1, <1>2 DEF IsNewest
<1> QED
  BY <1>2, <1>3, <1>4, <1>5

(* Unlink of a file that is neither today's nor the active one keeps them.   *)
LEMMA InvUnlinked ==
  ASSUME LogFilesInv, NEW n \in Names, n \notin {active, today}, Unlink({n}), Pruning,
         UNCHANGED <<today, active, rolled>>
  PROVE  /\ size' \in [Names -> 0 .. MaxSize] /\ Orders(written', Files') /\ Orders(born', Files')
         /\ DayInv'
         /\ active' \in Files' \ {Archive} /\ active' <= today'
         /\ ~rolled' => active' = today'
         /\ active' # today' => <<active', today'>> \in written'
<1> USE DEF LogFilesInv
<1>1. /\ size' \in [Names -> 0 .. MaxSize] /\ Files' = Files \ {n}
      /\ Orders(written', Files') /\ Orders(born', Files')
      /\ \A j, k \in Files' : /\ <<j, k>> \in written' <=> <<j, k>> \in written
                              /\ <<j, k>> \in born' <=> <<j, k>> \in born
  BY Unlinked
<1>2. today \in Files' /\ active \in Files' \ {Archive}
  BY <1>1 DEF DayInv, PruneInv
<1>3. DayInv'
  BY <1>1, <1>2 DEF DayInv, Younger
<1> QED
  BY <1>1, <1>2, <1>3 DEF PruneInv

(* Midnight.                                                                 *)
LEMMA InvRollover ==
  ASSUME LogFilesInv, Rollover, MaxFiles >= 3
  PROVE  LogFilesInv'
<1> USE DEF LogFilesInv
<1>1. /\ today' = today + 1 /\ today < MaxDays /\ ~rolled /\ rolled' = (prunePc # "asleep")
      /\ size' = [n \in Names |-> IF n = today + 1 THEN 1 ELSE IF n \in Kept THEN size[n] ELSE 0]
      /\ written' = PutLast(written, Kept, today + 1)
      /\ born' = PutLast(born, Kept, today + 1)
      /\ UNCHANGED <<prunePc, active, toZip, victim>>
  BY DEF Rollover
<1>2. /\ today \in Nat \ {0} /\ today + 1 \in Names \ {Archive}
      /\ size \in [Names -> 0 .. MaxSize] /\ Orders(written, Files) /\ Orders(born, Files)
      /\ Files \subseteq 0 .. today /\ Files \subseteq Names
  BY <1>1, LogFilesAssumption DEF LogFilesTypeOK, DayInv, Names, Archive, Files
<1>3. Kept \subseteq Files /\ today + 1 \notin Kept /\ today \in Kept
  BY <1>2, TodayIsKept DEF Kept
<1>4. size' \in [Names -> 0 .. MaxSize] /\ Files' = Kept \cup {today + 1}
  <2>1. size' \in [Names -> 0 .. MaxSize]
    BY <1>1, <1>2, LogFilesAssumption
  <2>2. \A n \in Names : size'[n] > 0 <=> n \in Kept \cup {today + 1}
    BY <1>1, <1>2, <1>3 DEF Files
  <2>3. Kept \cup {today + 1} \subseteq Names /\ Files' = {n \in Names : size'[n] > 0}
    BY <1>2, <1>3 DEF Files
  <2> QED
    BY <2>1, <2>2, <2>3
<1>5. PutLast(written, Kept, today + 1) = PutLast(Among(written, Kept), Kept, today + 1)
  BY <1>3 DEF PutLast, Among
<1>6. PutLast(born, Kept, today + 1) = PutLast(Among(born, Kept), Kept, today + 1)
  BY <1>3 DEF PutLast, Among
<1>7. /\ Orders(written', Files') /\ Orders(born', Files')
      /\ \A k \in Kept : <<k, today + 1>> \in written' /\ <<k, today + 1>> \in born'
  <2>1. Orders(Among(written, Kept), Kept) /\ Orders(Among(born, Kept), Kept)
    BY <1>2, <1>3, AmongOrders
  <2>2. PICK w : w = Among(written, Kept)
    OBVIOUS
  <2>3. PICK b : b = Among(born, Kept)
    OBVIOUS
  <2>4. PICK t : t = today + 1
    OBVIOUS
  <2>5. Orders(PutLast(w, Kept, t), Kept \cup {t}) /\ \A k \in Kept \ {t} : <<k, t>> \in PutLast(w, Kept, t)
    BY <2>1, <2>2, PutLastOrders
  <2>6. Orders(PutLast(b, Kept, t), Kept \cup {t}) /\ \A k \in Kept \ {t} : <<k, t>> \in PutLast(b, Kept, t)
    BY <2>1, <2>3, PutLastOrders
  <2>7. written' = PutLast(w, Kept, t) /\ born' = PutLast(b, Kept, t)
    BY <1>1, <1>5, <1>6, <2>2, <2>3, <2>4
  <2> QED
    BY <1>3, <1>4, <2>4, <2>5, <2>6, <2>7
<1>8. DayInv'
  <2>1. today' \in Files' /\ Files' \subseteq 0 .. today'
    BY <1>1, <1>2, <1>3, <1>4
  <2>2. Younger(today)' = {}
    BY <1>1, <1>4, <1>7 DEF Younger, Orders
  <2> QED
    BY <2>1, <2>2 DEF DayInv
<1>9. LogFilesTypeOK'
  BY <1>1, <1>2, <1>4, <1>7 DEF LogFilesTypeOK
<1>10. PruneInv'
  <2>1. IsNewest(today)'
    BY <1>1, <1>4, <1>7 DEF IsNewest
  <2>2. ASSUME Pruning
        PROVE  /\ active' \in Files' \ {Archive} /\ active' <= today'
               /\ rolled' /\ <<active', today'>> \in written'
               /\ \A i \in 1 .. Len(toZip') : toZip'[i] \notin {active', today'} /\ toZip'[i] <= today'
    <3>1. active = today
      BY <1>1, <2>2 DEF PruneInv
    <3>2. active' \in Files' \ {Archive} /\ active' <= today' /\ rolled'
      <4>1. rolled'
        BY <1>1, <2>2 DEF Pruning
      <4>2. active' = today /\ today # Archive /\ today <= today'
        BY <1>1, <1>2, <3>1 DEF Archive
      <4> QED
        BY <1>3, <1>4, <4>1, <4>2
    <3>3. <<active', today'>> \in written'
      BY <1>1, <1>3, <1>7, <3>1
    <3>4. ASSUME NEW i \in 1 .. Len(toZip)
          PROVE  toZip[i] \notin {today, today + 1} /\ toZip[i] <= today + 1
      <4>1. toZip[i] # today /\ toZip[i] <= today
        BY <2>2 DEF PruneInv
      <4>2. toZip[i] \in Names
        BY DEF LogFilesTypeOK
      <4>3. toZip[i] \in Nat
        BY <4>2, LogFilesAssumption DEF Names
      <4> QED
        BY <1>2, <4>1, <4>3
    <3> QED
      BY <1>1, <3>1, <3>2, <3>3, <3>4
  <2>3. prunePc = "remove" => victim' \notin {active', today'} /\ victim' <= today'
    BY <1>1, <1>2, LogFilesAssumption DEF PruneInv, LogFilesTypeOK, Names
  <2> QED
    BY <1>1, <2>1, <2>2, <2>3 DEF PruneInv, Pruning
<1> QED
  BY <1>8, <1>9, <1>10

(* Every step.                                                               *)
LEMMA LogFilesStep ==
  ASSUME LogFilesInv, [LogFilesNext]_logFilesVars, MaxFiles >= 3
  PROVE  LogFilesInv'
<1> USE DEF LogFilesInv
<1>1. CASE UNCHANGED logFilesVars
  BY <1>1 DEF logFilesVars, LogFilesTypeOK, DayInv, PruneInv, Files, IsNewest, Younger, Pruning
<1>2. ASSUME UNCHANGED <<dirVars, today>>
      PROVE  /\ size' \in [Names -> 0 .. MaxSize] /\ Orders(written', Files') /\ Orders(born', Files')
             /\ DayInv' /\ Files' = Files
  BY <1>2 DEF dirVars, LogFilesTypeOK, DayInv, Files, Younger
<1>3. CASE WriteLine
  <2>1. PICK s : s = size[today] + 1
    OBVIOUS
  <2>2. /\ WriteFile(today, s) /\ s \in 1 .. MaxSize
        /\ UNCHANGED <<today, prunePc, active, toZip, victim, rolled>>
    BY <1>3, <2>1, LogFilesAssumption DEF WriteLine
  <2>3. /\ size' \in [Names -> 0 .. MaxSize] /\ Orders(written', Files') /\ Orders(born', Files')
        /\ DayInv'
        /\ active \in Files \ {Archive} => active' \in Files' \ {Archive}
        /\ active \in Files \ {Archive, today} /\ <<active, today>> \in written
              => <<active, today>> \in written'
        /\ IsNewest(today)'
    BY <2>2, InvWrote
  <2>4. PruneInv'
    BY <2>2, <2>3 DEF PruneInv, Pruning
  <2> QED
    BY <2>2, <2>3, <2>4 DEF LogFilesTypeOK
<1>4. CASE Rollover
  BY <1>4, InvRollover
<1>5. CASE FindTooLarge
  <2>1. PICK s : s = IF size[today] < MaxSize THEN size[today] + 1 ELSE MaxSize
    OBVIOUS
  <2>2. /\ WriteFile(today, s) /\ prunePc' = "collect" /\ rolled' = FALSE
        /\ UNCHANGED <<today, active, toZip, victim>>
    BY <1>5, <2>1 DEF FindTooLarge
  <2>3. s \in 1 .. MaxSize
    BY <2>1, LogFilesAssumption DEF LogFilesTypeOK
  <2>4. /\ size' \in [Names -> 0 .. MaxSize] /\ Orders(written', Files') /\ Orders(born', Files')
        /\ DayInv' /\ IsNewest(today)'
    BY <2>2, <2>3, InvWrote
  <2>5. PruneInv'
    BY <2>2, <2>4 DEF PruneInv, Pruning
  <2> QED
    BY <2>2, <2>4, <2>5 DEF LogFilesTypeOK
<1>6. CASE Collect
  <2>1. PICK n \in Names : /\ IsNewest(n) /\ active' = n
                           /\ toZip' \in IF Compress THEN InOrder(Files \ {n, Archive}) ELSE {<<>>}
    BY <1>6 DEF Collect
  <2>2. prunePc = "collect" /\ prunePc' = "zip" /\ UNCHANGED <<dirVars, today, victim, rolled>>
    BY <1>6 DEF Collect
  <2>3. n = today
    BY <2>1, <2>2 DEF PruneInv, DayInv, IsNewest, LogFilesTypeOK, Orders
  <2>4. /\ toZip' \in Seq(Names)
        /\ \A i \in 1 .. Len(toZip') : toZip'[i] \in Files \ {n, Archive}
    BY <2>1, InOrderTypes
  <2>5. /\ size' \in [Names -> 0 .. MaxSize] /\ Orders(written', Files') /\ Orders(born', Files')
        /\ DayInv' /\ Files' = Files
    BY <1>2, <2>2
  <2>6. today \in Files \ {Archive} /\ today \in Nat /\ Files \subseteq 0 .. today
    BY LogFilesAssumption DEF DayInv, LogFilesTypeOK, Names
  <2>7. PruneInv'
    <3>1. /\ active' \in Files' \ {Archive} /\ active' <= today' /\ active' = today'
      BY <2>1, <2>2, <2>3, <2>5, <2>6
    <3>2. \A f \in Files : f <= today
      BY <2>6
    <3>3. \A i \in 1 .. Len(toZip') : toZip'[i] \notin {active', today'} /\ toZip'[i] <= today'
      BY <2>1, <2>2, <2>3, <2>4, <3>2
    <3> QED
      BY <2>2, <3>1, <3>3 DEF PruneInv
  <2> QED
    BY <2>1, <2>2, <2>4, <2>5, <2>7 DEF LogFilesTypeOK
<1>7. CASE ZipRead
  <2>1. /\ prunePc = "zip" /\ toZip # <<>> /\ prunePc' = "zipWrite"
        /\ UNCHANGED <<dirVars, today, active, toZip, victim, rolled>>
    BY <1>7 DEF ZipRead
  <2>2. PruneInv'
    BY <1>2, <2>1 DEF PruneInv, Pruning, dirVars
  <2> QED
    BY <1>2, <2>1, <2>2 DEF LogFilesTypeOK
<1>8. CASE ZipWrite
  <2>1. /\ prunePc = "zipWrite" /\ prunePc' = "zipUnlink" /\ WriteFile(Archive, 1)
        /\ UNCHANGED <<today, active, toZip, victim, rolled>>
    BY <1>8 DEF ZipWrite
  <2>2. PICK n : n = Archive
    OBVIOUS
  <2>3. 1 \in 1 .. MaxSize
    BY LogFilesAssumption
  <2>4. /\ size' \in [Names -> 0 .. MaxSize] /\ Orders(written', Files') /\ Orders(born', Files')
        /\ DayInv'
        /\ active \in Files \ {Archive} => active' \in Files' \ {Archive}
        /\ active \in Files \ {Archive, today} /\ <<active, today>> \in written
              => <<active, today>> \in written'
    BY <2>1, <2>2, <2>3, InvWrote
  <2>5. PruneInv'
    BY <2>1, <2>4 DEF PruneInv, Pruning
  <2> QED
    BY <2>1, <2>4, <2>5 DEF LogFilesTypeOK
<1>9. CASE ZipUnlink
  <2>1. /\ prunePc = "zipUnlink" /\ prunePc' = "zip" /\ Unlink({Head(toZip)}) /\ toZip' = Tail(toZip)
        /\ UNCHANGED <<today, active, victim, rolled>>
    BY <1>9 DEF ZipUnlink, NextToZip
  <2>2. toZip \in Seq(Names) /\ toZip # <<>> /\ Pruning
    BY <2>1 DEF LogFilesTypeOK, PruneInv, Pruning
  <2>3. PICK n \in Names : n = Head(toZip)
    BY <2>2
  <2>4. n = toZip[1] /\ 1 \in 1 .. Len(toZip)
    BY <2>2, <2>3
  <2>5. n \notin {active, today}
    BY <2>2, <2>4 DEF PruneInv
  <2>6. Unlink({n})
    BY <2>1, <2>3
  <2>7. /\ size' \in [Names -> 0 .. MaxSize] /\ Orders(written', Files') /\ Orders(born', Files')
        /\ DayInv'
        /\ active' \in Files' \ {Archive} /\ active' <= today'
        /\ ~rolled' => active' = today'
        /\ active' # today' => <<active', today'>> \in written'
    BY <2>1, <2>2, <2>5, <2>6, InvUnlinked
  <2>8. /\ toZip' \in Seq(Names) /\ Len(toZip') = Len(toZip) - 1
        /\ \A i \in 1 .. Len(toZip') : toZip'[i] = toZip[i + 1] /\ i + 1 \in 1 .. Len(toZip)
    BY <2>1, <2>2
  <2>9. \A i \in 1 .. Len(toZip') : toZip'[i] \notin {active', today'} /\ toZip'[i] <= today'
    BY <2>1, <2>2, <2>8 DEF PruneInv
  <2>10. PruneInv'
    BY <2>1, <2>7, <2>9 DEF PruneInv
  <2> QED
    BY <2>1, <2>7, <2>8, <2>10 DEF LogFilesTypeOK
<1>10. CASE ZipFails
  <2>1. /\ Pruning /\ toZip # <<>> /\ prunePc' = "zip" /\ toZip' = Tail(toZip)
        /\ UNCHANGED <<dirVars, today, active, victim, rolled>>
    BY <1>10 DEF ZipFails, NextToZip, Pruning
  <2>2. toZip \in Seq(Names)
    BY DEF LogFilesTypeOK
  <2>3. /\ toZip' \in Seq(Names) /\ Len(toZip') = Len(toZip) - 1
        /\ \A i \in 1 .. Len(toZip') : toZip'[i] = toZip[i + 1] /\ i + 1 \in 1 .. Len(toZip)
    BY <2>1, <2>2
  <2>4. \A i \in 1 .. Len(toZip') : toZip'[i] \notin {active', today'} /\ toZip'[i] <= today'
    BY <2>1, <2>3 DEF PruneInv
  <2>5. PruneInv'
    BY <1>2, <2>1, <2>4 DEF PruneInv, dirVars
  <2> QED
    BY <1>2, <2>1, <2>3, <2>5 DEF LogFilesTypeOK
<1>11. CASE ChooseOldest
  <2>1. PICK n \in Names : MayRemove(n) /\ victim' = n
    BY <1>11 DEF ChooseOldest
  <2>2. /\ prunePc = "zip" /\ prunePc' = "remove" /\ IsOldest(n) /\ n # active
        /\ UNCHANGED <<dirVars, today, active, toZip, rolled>>
    BY <1>11, <2>1 DEF ChooseOldest, MayRemove, NotActive
  <2>3. n # today
    <3>1. today \in Files /\ active \in Files /\ (active # today => <<active, today>> \in written)
      BY <2>2 DEF DayInv, PruneInv, Pruning
    <3> QED
      BY <2>2, <3>1 DEF IsOldest, LogFilesTypeOK, Orders
  <2>4. n <= today
    BY <2>2, LogFilesAssumption DEF IsOldest, DayInv, LogFilesTypeOK, Names
  <2>5. PruneInv'
    BY <1>2, <2>1, <2>2, <2>3, <2>4 DEF PruneInv, Pruning, dirVars
  <2> QED
    BY <1>2, <2>1, <2>2, <2>5 DEF LogFilesTypeOK
<1>12. CASE RemoveOldest
  <2>1. /\ prunePc = "remove" /\ prunePc' = "zip" /\ Unlink({victim})
        /\ UNCHANGED <<today, active, toZip, victim, rolled>>
    BY <1>12 DEF RemoveOldest
  <2>2. Pruning /\ victim \in Names /\ victim \notin {active, today}
    BY <2>1 DEF PruneInv, LogFilesTypeOK, Pruning
  <2>3. /\ size' \in [Names -> 0 .. MaxSize] /\ Orders(written', Files') /\ Orders(born', Files')
        /\ DayInv'
        /\ active' \in Files' \ {Archive} /\ active' <= today'
        /\ ~rolled' => active' = today'
        /\ active' # today' => <<active', today'>> \in written'
    BY <2>1, <2>2, InvUnlinked
  <2>4. PruneInv'
    BY <2>1, <2>2, <2>3 DEF PruneInv
  <2> QED
    BY <2>1, <2>3, <2>4 DEF LogFilesTypeOK
<1>13. CASE PruneEnds
  <2>1. prunePc' = "asleep" /\ rolled' = FALSE /\ UNCHANGED <<dirVars, today, active, toZip, victim>>
    BY <1>13 DEF PruneEnds
  <2>2. PruneInv'
    BY <2>1 DEF PruneInv, Pruning
  <2> QED
    BY <1>2, <2>1, <2>2 DEF LogFilesTypeOK
<1> QED
  BY <1>1, <1>3, <1>4, <1>5, <1>6, <1>7, <1>8, <1>9, <1>10, <1>11, <1>12, <1>13 DEF LogFilesNext

(* The conjunction holds for ever.                                           *)
LEMMA LogFilesInductive == MaxFiles >= 3 => (LogFilesSpec => []LogFilesInv)
<1> SUFFICES ASSUME MaxFiles >= 3 PROVE LogFilesSpec => []LogFilesInv
  OBVIOUS
<1>1. LogFilesInit => LogFilesInv
  <2> SUFFICES ASSUME LogFilesInit PROVE LogFilesInv
    OBVIOUS
  <2>1. Files = {1} /\ LogFilesTypeOK
    BY FirstDay
  <2> QED
    BY <2>1 DEF LogFilesInit, LogFilesInv, DayInv, PruneInv, Pruning, Younger
<1>2. LogFilesInv /\ [LogFilesNext]_logFilesVars => LogFilesInv'
  BY LogFilesStep
<1> QED
  BY <1>1, <1>2, PTL DEF LogFilesSpec

(* TodayKept: neither the hourly prune nor a midnight in its middle removes  *)
(* the file the appender writes to, for any limit, with the appender keeping *)
(* three files or more.                                                      *)
THEOREM TodayIsThere == MaxFiles >= 3 => (LogFilesSpec => []TodayKept)
<1> SUFFICES ASSUME MaxFiles >= 3 PROVE LogFilesSpec => []TodayKept
  OBVIOUS
<1>1. LogFilesInv => TodayKept
  BY DEF LogFilesInv, DayInv, Files, TodayKept
<1> QED
  BY <1>1, LogFilesInductive, PTL

-----------------------------------------------------------------------------
(* The types of the log directory, also with fewer files kept than three.    *)
LogFilesTypeInv ==
  /\ LogFilesTypeOK
  /\ Files \subseteq 0 .. today
  /\ prunePc \in {"zipWrite", "zipUnlink"} => toZip # <<>>

(* The first and the others of a sequence that has one.                      *)
LEMMA FirstAndOthers ==
  ASSUME NEW S, NEW q \in Seq(S), q # <<>>
  PROVE  Head(q) \in S /\ Tail(q) \in Seq(S)
OBVIOUS

(* LogFilesTypeInv, step by step.                                            *)
LEMMA LogFilesTypeStep ==
  ASSUME LogFilesTypeInv, [LogFilesNext]_logFilesVars
  PROVE  LogFilesTypeInv'
<1> USE DEF LogFilesTypeInv
<1>0. /\ size \in [Names -> 0 .. MaxSize] /\ Orders(written, Files) /\ Orders(born, Files)
      /\ today \in Names \ {Archive} /\ active \in Names /\ victim \in Names
      /\ toZip \in Seq(Names) /\ Files \subseteq Names /\ today \in Nat
      /\ Archive \in Names /\ Archive \in 0 .. today
  BY LogFilesAssumption DEF LogFilesTypeOK, Files, Names, Archive
<1>1. CASE UNCHANGED logFilesVars
  BY <1>1 DEF logFilesVars, LogFilesTypeOK, Files
<1>2. ASSUME UNCHANGED <<dirVars, today>>
      PROVE  /\ size' \in [Names -> 0 .. MaxSize] /\ Orders(written', Files') /\ Orders(born', Files')
             /\ Files' \subseteq 0 .. today'
  BY <1>0, <1>2 DEF dirVars, Files
<1>3. ASSUME NEW n \in {today, Archive}, NEW s \in 1 .. MaxSize, WriteFile(n, s), UNCHANGED today
      PROVE  /\ size' \in [Names -> 0 .. MaxSize] /\ Orders(written', Files') /\ Orders(born', Files')
             /\ Files' \subseteq 0 .. today'
  <2>1. n \in Names /\ n \in 0 .. today
    BY <1>0
  <2> QED
    BY <1>0, <1>3, <2>1, Wrote
<1>4. ASSUME NEW n \in Names, Unlink({n}), UNCHANGED today
      PROVE  /\ size' \in [Names -> 0 .. MaxSize] /\ Orders(written', Files') /\ Orders(born', Files')
             /\ Files' \subseteq 0 .. today'
  BY <1>4, Unlinked
<1>5. CASE WriteLine
  <2>1. PICK s : s = size[today] + 1
    OBVIOUS
  <2>2. /\ WriteFile(today, s) /\ s \in 1 .. MaxSize
        /\ UNCHANGED <<today, prunePc, active, toZip, victim, rolled>>
    BY <1>5, <2>1, LogFilesAssumption DEF WriteLine
  <2>3. /\ size' \in [Names -> 0 .. MaxSize] /\ Orders(written', Files') /\ Orders(born', Files')
        /\ Files' \subseteq 0 .. today'
    BY <1>3, <2>2
  <2> QED
    BY <2>2, <2>3 DEF LogFilesTypeOK
<1>6. CASE Rollover
  <2>1. /\ today' = today + 1 /\ today < MaxDays /\ rolled' = (prunePc # "asleep")
        /\ size' = [n \in Names |-> IF n = today + 1 THEN 1 ELSE IF n \in Kept THEN size[n] ELSE 0]
        /\ written' = PutLast(written, Kept, today + 1)
        /\ born' = PutLast(born, Kept, today + 1)
        /\ UNCHANGED <<prunePc, active, toZip, victim>>
    BY <1>6 DEF Rollover
  <2>2. PICK t \in Names \ {Archive} : t = today + 1
    BY <1>0, <2>1, LogFilesAssumption DEF Names, Archive
  <2>3. Kept \subseteq Files /\ t \notin Kept
    BY <1>0, <2>2 DEF Kept
  <2>4. size' \in [Names -> 0 .. MaxSize] /\ Files' = Kept \cup {t}
    <3>1. size' \in [Names -> 0 .. MaxSize]
      BY <1>0, <2>1, LogFilesAssumption
    <3>2. \A n \in Names : size'[n] > 0 <=> n \in Kept \cup {t}
      BY <1>0, <2>1, <2>2, <2>3 DEF Files
    <3>3. Kept \cup {t} \subseteq Names /\ Files' = {n \in Names : size'[n] > 0}
      BY <1>0, <2>2, <2>3 DEF Files
    <3> QED
      BY <3>1, <3>2, <3>3
  <2>5. ASSUME NEW order, Orders(order, Files)
        PROVE  Orders(PutLast(order, Kept, t), Kept \cup {t})
    <3>1. PICK w : w = Among(order, Kept)
      OBVIOUS
    <3>2. Orders(w, Kept)
      BY <2>3, <2>5, <3>1, AmongOrders
    <3>3. Orders(PutLast(w, Kept, t), Kept \cup {t})
      BY <3>2, PutLastOrders
    <3>4. PutLast(w, Kept, t) = PutLast(order, Kept, t)
      BY <2>3, <3>1 DEF PutLast, Among
    <3> QED
      BY <3>3, <3>4
  <2>6. Orders(written', Files') /\ Orders(born', Files')
    BY <1>0, <2>1, <2>2, <2>4, <2>5
  <2>7. Files' \subseteq 0 .. today'
    BY <1>0, <2>1, <2>2, <2>3, <2>4
  <2> QED
    BY <1>0, <2>1, <2>2, <2>4, <2>6, <2>7 DEF LogFilesTypeOK
<1>7. CASE FindTooLarge
  <2>1. PICK s : s = IF size[today] < MaxSize THEN size[today] + 1 ELSE MaxSize
    OBVIOUS
  <2>2. /\ WriteFile(today, s) /\ prunePc' = "collect" /\ rolled' = FALSE
        /\ UNCHANGED <<today, active, toZip, victim>>
    BY <1>7, <2>1 DEF FindTooLarge
  <2>3. s \in 1 .. MaxSize
    BY <1>0, <2>1, LogFilesAssumption
  <2>4. /\ size' \in [Names -> 0 .. MaxSize] /\ Orders(written', Files') /\ Orders(born', Files')
        /\ Files' \subseteq 0 .. today'
    BY <1>3, <2>2, <2>3
  <2> QED
    BY <2>2, <2>4 DEF LogFilesTypeOK
<1>8. CASE Collect
  <2>1. PICK n \in Names : active' = n /\
           toZip' \in IF Compress THEN InOrder(Files \ {n, Archive}) ELSE {<<>>}
    BY <1>8 DEF Collect
  <2>2. prunePc' = "zip" /\ UNCHANGED <<dirVars, today, victim, rolled>>
    BY <1>8 DEF Collect
  <2>3. toZip' \in Seq(Names)
    <3>1. CASE Compress
      <4>1. PICK list : list = toZip'
        OBVIOUS
      <4>2. list \in InOrder(Files \ {n, Archive})
        BY <2>1, <3>1, <4>1
      <4> QED
        BY <1>0, <2>1, <4>1, <4>2, InOrderTypes
    <3>2. CASE ~Compress
      BY <2>1, <3>2
    <3> QED
      BY <3>1, <3>2
  <2>4. /\ size' \in [Names -> 0 .. MaxSize] /\ Orders(written', Files') /\ Orders(born', Files')
        /\ Files' \subseteq 0 .. today'
    BY <1>2, <2>2
  <2> QED
    BY <2>1, <2>2, <2>3, <2>4 DEF LogFilesTypeOK
<1>9. CASE ZipRead \/ ZipFails \/ ChooseOldest \/ PruneEnds
  <2>1. /\ UNCHANGED <<dirVars, today, active>> /\ rolled' \in BOOLEAN
        /\ toZip' \in {toZip, Tail(toZip)} /\ (toZip' # toZip => toZip # <<>> /\ prunePc' = "zip")
        /\ victim' \in Names
        /\ prunePc' \in {"asleep", "zip", "zipWrite", "remove"}
        /\ prunePc' = "zipWrite" => toZip' # <<>>
    BY <1>0, <1>9 DEF ZipRead, ZipFails, NextToZip, ChooseOldest, PruneEnds, LogFilesTypeOK
  <2>2. toZip' \in Seq(Names)
    <3>1. CASE toZip' = toZip
      BY <1>0, <3>1
    <3>2. CASE toZip' # toZip
      <4>1. toZip # <<>> /\ toZip' = Tail(toZip)
        BY <2>1, <3>2
      <4>2. Tail(toZip) \in Seq(Names)
        BY <1>0, <4>1, FirstAndOthers
      <4> QED
        BY <4>1, <4>2
    <3> QED
      BY <3>1, <3>2
  <2>3. /\ size' \in [Names -> 0 .. MaxSize] /\ Orders(written', Files') /\ Orders(born', Files')
        /\ Files' \subseteq 0 .. today'
    BY <1>2, <2>1
  <2> QED
    BY <1>0, <2>1, <2>2, <2>3 DEF LogFilesTypeOK
<1>10. CASE ZipWrite
  <2>1. /\ prunePc = "zipWrite" /\ prunePc' = "zipUnlink" /\ WriteFile(Archive, 1)
        /\ UNCHANGED <<today, active, toZip, victim, rolled>>
    BY <1>10 DEF ZipWrite
  <2>2. PICK n : n = Archive
    OBVIOUS
  <2>3. 1 \in 1 .. MaxSize
    BY LogFilesAssumption
  <2>4. /\ size' \in [Names -> 0 .. MaxSize] /\ Orders(written', Files') /\ Orders(born', Files')
        /\ Files' \subseteq 0 .. today'
    BY <1>3, <2>1, <2>2, <2>3
  <2> QED
    BY <2>1, <2>4 DEF LogFilesTypeOK
<1>11. CASE ZipUnlink
  <2>1. /\ prunePc = "zipUnlink" /\ prunePc' = "zip" /\ Unlink({Head(toZip)}) /\ toZip' = Tail(toZip)
        /\ UNCHANGED <<today, active, victim, rolled>>
    BY <1>11 DEF ZipUnlink, NextToZip
  <2>2. toZip # <<>>
    BY <1>0, <2>1
  <2>3. PICK n \in Names : n = Head(toZip)
    BY <1>0, <2>2, FirstAndOthers
  <2>4. toZip' \in Seq(Names)
    BY <1>0, <2>1, <2>2, FirstAndOthers
  <2>5. /\ size' \in [Names -> 0 .. MaxSize] /\ Orders(written', Files') /\ Orders(born', Files')
        /\ Files' \subseteq 0 .. today'
    BY <1>4, <2>1, <2>3
  <2> QED
    BY <2>1, <2>4, <2>5 DEF LogFilesTypeOK
<1>12. CASE RemoveOldest
  <2>1. /\ prunePc' = "zip" /\ Unlink({victim}) /\ UNCHANGED <<today, active, toZip, victim, rolled>>
    BY <1>12 DEF RemoveOldest
  <2>2. /\ size' \in [Names -> 0 .. MaxSize] /\ Orders(written', Files') /\ Orders(born', Files')
        /\ Files' \subseteq 0 .. today'
    BY <1>0, <1>4, <2>1
  <2> QED
    BY <2>1, <2>2 DEF LogFilesTypeOK
<1> QED
  BY <1>1, <1>5, <1>6, <1>7, <1>8, <1>9, <1>10, <1>11, <1>12 DEF LogFilesNext

(* The types of the log directory.                                           *)
LEMMA LogFilesTypeCorrect == LogFilesSpec => []LogFilesTypeOK
<1>1. LogFilesInit => LogFilesTypeInv
  <2> SUFFICES ASSUME LogFilesInit PROVE LogFilesTypeInv
    OBVIOUS
  <2>1. Files = {1} /\ today = 1 /\ prunePc = "asleep" /\ LogFilesTypeOK
    BY FirstDay DEF LogFilesInit
  <2> QED
    BY <2>1 DEF LogFilesTypeInv
<1>2. LogFilesTypeInv /\ [LogFilesNext]_logFilesVars => LogFilesTypeInv'
  BY LogFilesTypeStep
<1>3. LogFilesTypeInv => LogFilesTypeOK
  BY DEF LogFilesTypeInv
<1> QED
  BY <1>1, <1>2, <1>3, PTL DEF LogFilesSpec

-----------------------------------------------------------------------------
(* The types of all parts                                                    *)

(* A monitor that reports has something to report, and main() that waits an  *)
(* exclusion to record.                                                      *)
JournalTypeInv ==
  /\ JournalTypeOK
  /\ monitorPc \in {"report", "wait"} => report > 0
  /\ mainPc = "wait" => toNote > 0

(* The larger of two numbers.                                                *)
LEMMA MaxOfTwo ==
  ASSUME NEW a \in Nat, NEW b \in Nat
  PROVE  Max({a, b}) \in Nat /\ Max({a, b}) >= a /\ Max({a, b}) >= b
<1>1. Max({a, b}) = CHOOSE x \in {a, b} : \A y \in {a, b} : x >= y
  BY DEF Max
<1>2. \E x \in {a, b} : \A y \in {a, b} : x >= y
  OBVIOUS
<1>3. Max({a, b}) \in {a, b} /\ \A y \in {a, b} : Max({a, b}) >= y
  BY <1>1, <1>2
<1> QED
  BY <1>3

(* An append keeps the types of the table.                                   *)
LEMMA InsertTypes ==
  ASSUME JournalInv, JournalTypeOK, Insert, UNCHANGED time
  PROVE  /\ events' \subseteq Event /\ lastId' \in Nat /\ dbPages' \in Nat /\ dbPages' >= dbPages
         /\ stamps' \in Seq(Nat) /\ MaxId(events') \in Nat
<1> DEFINE new == [id |-> NextId, ts |-> clock]
           all == events \union {new}
<1>1. TableInv /\ KeptNewest /\ UNCHANGED <<clock, latest>>
  BY DEF JournalInv, time
<1>2. /\ events' \subseteq Event /\ lastId' = lastId + 1 /\ stamps' \in Seq(Nat)
      /\ MaxId(events') \in {0, lastId'}
  BY <1>1, Inserted
<1>3. dbPages' = Max({dbPages, Cardinality(all)})
  BY DEF Insert
<1>4. IsFiniteSet(events) /\ dbPages \in Nat /\ lastId \in Nat
  BY <1>1 DEF TableInv, JournalTypeOK
<1> HIDE DEF new
<1>5. IsFiniteSet(all) /\ Cardinality(all) \in Nat
  BY <1>4, FS_AddElement, FS_CardinalityType
<1> HIDE DEF all
<1>6. dbPages' \in Nat /\ dbPages' >= dbPages
  BY <1>3, <1>4, <1>5, MaxOfTwo
<1> QED
  BY <1>2, <1>4, <1>6

(* The types of the journal, step by step.                                   *)
LEMMA JournalTypeStep ==
  ASSUME JournalInv, JournalTypeInv, [JournalNext]_journalVars
  PROVE  JournalTypeInv'
<1> USE DEF JournalTypeInv
<1>1. CASE UNCHANGED journalVars
  BY <1>1 DEF journalVars, JournalTypeOK
<1>2. ASSUME Appended \/ AppendFails, UNCHANGED <<filePages, time>>
      PROVE  /\ events' \subseteq Event /\ lastId' \in Nat /\ dbPages' \in Nat
             /\ filePages' \in 0 .. dbPages' /\ clock' \in Nat /\ latest' \in Nat
             /\ stamps' \in Seq(Nat) /\ told' \in Seq(Nat)
  <2>1. CASE Insert
    <3>1. /\ events' \subseteq Event /\ lastId' \in Nat /\ dbPages' \in Nat /\ dbPages' >= dbPages
          /\ stamps' \in Seq(Nat) /\ MaxId(events') \in Nat
      BY <1>2, <2>1, InsertTypes
    <3>2. told' \in Seq(Nat)
      <4>1. PICK m \in Nat : m = MaxId(events')
        BY <3>1
      <4>2. told' = Append(told, m) \/ told' = told
        BY <1>2, <4>1 DEF Appended, AppendFails, table
      <4>3. told \in Seq(Nat)
        BY DEF JournalTypeOK
      <4> QED
        BY <4>2, <4>3
    <3> QED
      BY <1>2, <3>1, <3>2 DEF time, JournalTypeOK
  <2>2. CASE UNCHANGED table
    BY <1>2, <2>2 DEF table, time, JournalTypeOK
  <2> QED
    BY <1>2, <2>1, <2>2 DEF Appended, AppendFails
<1>3. CASE StartUp
  <2>1. events' \in CleanedUp(events, dbPages)
    BY <1>3 DEF StartUp
  <2>2. events' \subseteq Event
    BY <2>1, CleanUpRemoves DEF JournalInv, TableInv
  <2> QED
    BY <1>3, <2>2, JournalAssumption DEF StartUp, time, JournalTypeOK
<1>4. CASE Note
  BY <1>4 DEF Note, table, time, JournalTypeOK
<1>5. CASE Noted
  <2>1. /\ Appended /\ mainPc = "wait" /\ mainPc' = "note" /\ toNote' = toNote - 1
        /\ UNCHANGED <<filePages, monitorPc, report, time>>
    BY <1>5 DEF Noted
  <2> QED
    BY <1>2, <2>1, JournalAssumption DEF JournalTypeOK
<1>6. CASE NoteFails
  <2>1. /\ AppendFails /\ mainPc' = "down" /\ toNote' = 0
        /\ UNCHANGED <<filePages, monitorPc, report, time>>
    BY <1>6 DEF NoteFails
  <2> QED
    BY <1>2, <2>1, JournalAssumption DEF JournalTypeOK
<1>7. CASE StartMonitor
  BY <1>7 DEF StartMonitor, table, time, JournalTypeOK
<1>8. CASE Die
  BY <1>8, JournalAssumption DEF Die, table, time, JournalTypeOK
<1>9. CASE Wake
  BY <1>9 DEF Wake, Alerts, table, time, JournalTypeOK
<1>10. CASE Report
  BY <1>10 DEF Report, table, time, JournalTypeOK
<1>11. CASE Reported
  <2>1. /\ Appended \/ AppendFails
        /\ monitorPc = "wait" /\ report' = report - 1
        /\ monitorPc' = IF report = 1 THEN "asleep" ELSE "report"
        /\ UNCHANGED <<filePages, mainPc, toNote, time>>
    BY <1>11 DEF Reported, Proceed
  <2> QED
    BY <1>2, <2>1 DEF JournalTypeOK
<1>12. CASE Checkpoint
  BY <1>12 DEF Checkpoint, table, time, JournalTypeOK
<1>13. CASE Tick
  <2>1. latest' = Max({latest, clock + 1}) /\ clock' = clock + 1
    BY <1>13 DEF Tick
  <2>2. latest' \in Nat /\ clock' \in Nat
    BY <2>1, MaxOfTwo DEF JournalTypeOK
  <2> QED
    BY <1>13, <2>2 DEF Tick, table, JournalTypeOK
<1>14. CASE SetBack
  BY <1>14, JournalAssumption DEF SetBack, table, JournalTypeOK
<1> QED
  BY <1>1, <1>3, <1>4, <1>5, <1>6, <1>7, <1>8, <1>9, <1>10, <1>11, <1>12, <1>13, <1>14
     DEF JournalNext, MonitorStep

(* The types of the journal.                                                 *)
LEMMA JournalTypeCorrect == JournalSpec => []JournalTypeOK
<1>1. JournalInit => JournalTypeInv
  BY JournalAssumption DEF JournalInit, JournalTypeInv, JournalTypeOK
<1>2. JournalInv /\ JournalTypeInv /\ [JournalNext]_journalVars => JournalTypeInv'
  BY JournalTypeStep
<1>3. JournalTypeInv => JournalTypeOK
  BY DEF JournalTypeInv
<1> QED
  BY <1>1, <1>2, <1>3, JournalInductive, PTL DEF JournalSpec

(* A level that is to be published is a level.                               *)
LogLevelTypeInv ==
  /\ LogLevelTypeOK
  /\ \A p \in Posts : postPc[p] = "publish" => posted[p] \in Levels

(* The types of the log level.                                               *)
LEMMA LogLevelTypeCorrect == LogLevelSpec => []LogLevelTypeOK
<1>1. LogLevelInit => LogLevelTypeInv
  BY LogLevelAssumption DEF LogLevelInit, LogLevelTypeInv, LogLevelTypeOK, Levels
<1>2. LogLevelTypeInv /\ [LogLevelNext]_logLevelVars => LogLevelTypeInv'
  <2> SUFFICES ASSUME LogLevelTypeInv, [LogLevelNext]_logLevelVars
               PROVE  LogLevelTypeInv'
    OBVIOUS
  <2> USE DEF LogLevelTypeInv, LogLevelTypeOK, Levels
  <2>1. CASE UNCHANGED logLevelVars
    BY <2>1 DEF logLevelVars
  <2>2. ASSUME NEW p \in Posts, RefuseLevel(p) \/ Modify(p) \/ ModifyFails(p) \/ HangUpPost(p)
        PROVE  LogLevelTypeInv'
    BY <2>2 DEF RefuseLevel, Modify, ModifyFails, HangUpPost
  <2>3. ASSUME NEW p \in Posts, Publish(p)
        PROVE  LogLevelTypeInv'
    BY <2>3 DEF Publish
  <2>4. ASSUME NEW p \in Posts, RollBack(p) \/ RollBackPublish(p)
        PROVE  LogLevelTypeInv'
    BY <2>4 DEF RollBack, RollBackPublish
  <2> QED
    BY <2>1, <2>2, <2>3, <2>4 DEF LogLevelNext, Handle
<1>3. LogLevelTypeInv => LogLevelTypeOK
  BY DEF LogLevelTypeInv
<1> QED
  BY <1>1, <1>2, <1>3, PTL DEF LogLevelSpec

-----------------------------------------------------------------------------
(* The parts together                                                        *)

(* The parts run side by side as each does alone.                            *)
LEMMA Parts == Spec => ApprovalsSpec /\ JournalSpec /\ LogLevelSpec /\ LogFilesSpec
<1>1. Init => ApprovalsInit /\ JournalInit /\ LogLevelInit /\ LogFilesInit
  BY DEF Init
<1>2. [Next]_vars => /\ [ApprovalsNext]_approvalsVars /\ [JournalNext]_journalVars
                     /\ [LogLevelNext]_logLevelVars /\ [LogFilesNext]_logFilesVars
  <2>1. UNCHANGED vars => /\ UNCHANGED approvalsVars /\ UNCHANGED journalVars
                          /\ UNCHANGED logLevelVars /\ UNCHANGED logFilesVars
    BY DEF vars
  <2>2. Next => /\ ApprovalsNext \/ UNCHANGED approvalsVars
                /\ JournalNext \/ UNCHANGED journalVars
                /\ LogLevelNext \/ UNCHANGED logLevelVars
                /\ LogFilesNext \/ UNCHANGED logFilesVars
    BY DEF Next, Of
  <2> QED
    BY <2>1, <2>2
<1> QED
  BY <1>1, <1>2, PTL DEF Spec, ApprovalsSpec, JournalSpec, LogLevelSpec, LogFilesSpec

(* TypeOK: the types of the approvals, the journal, the log level and the    *)
(* log directory, each while its writers interleave.                         *)
THEOREM OperationsTypeCorrect == Spec => []TypeOK
<1>1. ApprovalsTypeOK /\ JournalTypeOK /\ LogLevelTypeOK /\ LogFilesTypeOK => TypeOK
  BY DEF TypeOK
<1> QED
  BY <1>1, Parts, ApprovalsTypeCorrect, JournalTypeCorrect, LogLevelTypeCorrect, LogFilesTypeCorrect, PTL

(* The safety properties of the parts, of all of them side by side.          *)
COROLLARY OperationsSafe ==
  /\ Spec => [](Consent /\ AdmitsStanding /\ SeqsRise /\ KeptNewest)
  /\ MaxFiles >= 3 => (Spec => []TodayKept)
<1>1. Spec => [](Consent /\ AdmitsStanding /\ SeqsRise /\ KeptNewest)
  BY Parts, OnlyApproved, OnlyStanding, AnswersRise, NewestKept, PTL
<1>2. ASSUME MaxFiles >= 3
      PROVE  Spec => []TodayKept
  <2>1. LogFilesSpec => []TodayKept
    BY <1>2, TodayIsThere
  <2> QED
    BY <2>1, Parts, PTL
<1> QED
  BY <1>1, <1>2
===============================================================================
