----------------------------- MODULE DriverPlans -----------------------------
(***************************************************************************)
(* The driver with plans that are like those of Stc89::plan.               *)
(***************************************************************************)
EXTENDS Driver, PlanShape

ASSUME RatesAssumption ==
  /\ NoBaud \notin {HandshakeBaud, TransferBaud}
  /\ \A plan \in Plans : SetsRates(plan, HandshakeBaud, TransferBaud)

ASSUME ErasesAssumption == \A plan \in Plans : ProvesLineFirst(plan, LinksWanted)

ASSUME BlocksAssumption ==
  \A plan \in Plans : FillsOwnBlocks(plan, FlashBlocks, EraseUnit, BytesPerBlock)
=============================================================================
