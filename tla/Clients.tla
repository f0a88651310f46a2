------------------------------- MODULE Clients -------------------------------
(***************************************************************************)
(* The client programs next to each other: the light client, the farmer    *)
(* and the SQLite store that both keep their records in.  They are         *)
(* separate processes, or are used through one interface; a behaviour is   *)
(* of one of them, so that their states add up and do not multiply.        *)
(***************************************************************************)
EXTENDS LightClient, FarmerLoop, SqliteKv

VARIABLE part   \* the part that runs

clientsVars == <<part, vars, farmVars, sqliteVars>>

Part == {"light", "farmer", "store"}

light(A) == part = "light" /\ A /\ UNCHANGED <<part, farmVars, sqliteVars>>
farmer(A) == part = "farmer" /\ A /\ UNCHANGED <<part, vars, sqliteVars>>
store(A) == part = "store" /\ A /\ UNCHANGED <<part, vars, farmVars>>

\* The headers matter to the light client alone.
ClientsInit ==
    /\ part \in Part
    /\ LightInit /\ FarmInit /\ SqliteInit
    /\ part # "light" => header = [b \in Block |-> "empty"]

ClientsNext == light(LightNext) \/ farmer(FarmNext) \/ store(SqliteNext)

ClientsSpec ==
    /\ ClientsInit
    /\ [][ClientsNext]_clientsVars
    /\ WF_clientsVars(farmer(send_header)) /\ WF_clientsVars(farmer(fetch))
    /\ WF_clientsVars(farmer(save_and_find)) /\ WF_clientsVars(farmer(claim_step))
    /\ WF_clientsVars(farmer(settle))
=============================================================================
