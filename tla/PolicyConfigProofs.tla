------------------------- MODULE PolicyConfigProofs -------------------------
(***************************************************************************)
(* Proofs about PolicyConfig: whatever was entered, or failed to be        *)
(* entered, before, a policy that runs has the model, the period and every *)
(* parameter of the file that config_name names, and the periods of the    *)
(* loops are the right ones.  The first part looks at no file: it holds    *)
(* for any keys that the files define, because a file is laid over what is *)
(* there as a whole.                                                       *)
(***************************************************************************)
EXTENDS PolicyConfig, TLAPS

(***************************************************************************)
(* The operators.                                                          *)
(***************************************************************************)

\* What ReadYaml does to a key.
LEMMA OverlaidFacts ==
    ASSUME NEW new, NEW old
    PROVE  /\ DOMAIN Overlaid(new, old) = DOMAIN new \cup DOMAIN old
           /\ \A k \in DOMAIN new : Overlaid(new, old)[k] = new[k]
           /\ \A k \in DOMAIN old \ DOMAIN new : Overlaid(new, old)[k] = old[k]
BY DEF Overlaid

\* The names, by the state that is entered.
LEMMA ConfigOfFacts ==
    ASSUME NEW s \in RLState, NEW c \in Config \cup {""}
    PROVE  /\ ConfigOf(s, c) \in Config
           /\ s = "RLWholeBodyTrackingDance" =>
                  ConfigOf(s, c) = "whole_body_tracking"
           /\ s = "RLMjlabTracking" => ConfigOf(s, c) = "mjlab"
           /\ s = "RLLocomotion" => ConfigOf(s, c) # "whole_body_tracking"
BY DEF ConfigOf, RLState, Config

LEMMA StateFacts ==
    /\ RLState \subseteq State
    /\ "Passive" \in State \ RLState
    /\ \A s \in State : Successors[s] \subseteq State
<1>1. RLState \subseteq State /\ "Passive" \in State \ RLState
  BY DEF State, RLState
<1>2. ASSUME NEW s \in State PROVE Successors[s] \subseteq State
  BY DEF State, RLState, Successors
<1> QED
  BY <1>1, <1>2

(***************************************************************************)
(* RunsItsOwnConfig.                                                       *)
(***************************************************************************)

NameTypes ==
    /\ deployment \in Deployment
    /\ state \in State
    /\ config_name \in Config \cup {""}
    /\ model \in Config \cup {"null"}
    /\ rl_init_done \in BOOLEAN

\* What InitRL left, when it did not throw, stays as long as the state does; a
\* failed one leaves anything, but no learned state.
LoadedInv ==
    state \in RLState =>
        /\ config_name \in Config
        /\ model = config_name
        /\ period = PolicyRate(params)
        /\ DOMAIN Defines[config_name] \subseteq DOMAIN params
        /\ \A k \in DOMAIN Defines[config_name] :
               params[k] = Defines[config_name][k]
        /\ state = "RLWholeBodyTrackingDance" =>
               config_name = "whole_body_tracking"
        /\ state = "RLMjlabTracking" => config_name = "mjlab"
        /\ state = "RLLocomotion" => config_name # "whole_body_tracking"

\* Only a learned state enables the policy thread.
EnabledInv == rl_init_done => state \in RLState

ConfigInv == NameTypes /\ LoadedInv /\ EnabledInv

LEMMA ConfigInvInit == Init => ConfigInv
<1> SUFFICES ASSUME Init PROVE ConfigInv
  OBVIOUS
<1>1. /\ deployment \in Deployment /\ state = "Passive"
      /\ config_name = FirstConfig /\ model = "null" /\ rl_init_done = FALSE
  BY DEF Init
<1>2. config_name \in Config \cup {""}
  BY <1>1 DEF FirstConfig, Config
<1> QED
  BY <1>1, <1>2, StateFacts DEF ConfigInv, NameTypes, LoadedInv, EnabledInv

LEMMA InitRLKeepsConfig ==
    ASSUME ConfigInv, NEW s \in RLState, InitRL(s), UNCHANGED deployment
    PROVE  ConfigInv'
<1> DEFINE config == ConfigOf(s, config_name)
<1>1. /\ state' = s /\ config_name' = config /\ model' = config
      /\ params' = Overlaid(Defines[config], params)
      /\ period' = PolicyRate(params') /\ rl_init_done' = FALSE
  BY DEF InitRL, ReadYaml
<1>2. NameTypes
  BY DEF ConfigInv
<1>3. config_name' \in Config
  BY <1>1, <1>2, ConfigOfFacts DEF NameTypes
<1>4. LoadedInv'
  <2>1. /\ s = "RLWholeBodyTrackingDance" => config = "whole_body_tracking"
        /\ s = "RLMjlabTracking" => config = "mjlab"
        /\ s = "RLLocomotion" => config # "whole_body_tracking"
    BY <1>2, ConfigOfFacts DEF NameTypes
  <2> HIDE DEF config
  <2>2. /\ DOMAIN Defines[config]
              \subseteq DOMAIN Overlaid(Defines[config], params)
        /\ \A k \in DOMAIN Defines[config] :
              Overlaid(Defines[config], params)[k] = Defines[config][k]
    <3>1. DOMAIN Overlaid(Defines[config], params)
            = DOMAIN Defines[config] \cup DOMAIN params
      BY OverlaidFacts
    <3> QED
      BY <3>1, OverlaidFacts, Zenon
  <2>3. /\ DOMAIN Defines[config] \subseteq DOMAIN params'
        /\ \A k \in DOMAIN Defines[config] : params'[k] = Defines[config][k]
    BY <1>1, <2>2, Zenon
  <2> QED
    BY <1>1, <1>3, <2>1, <2>3 DEF LoadedInv
<1>5. NameTypes' /\ EnabledInv'
  BY <1>1, <1>2, <1>3, StateFacts DEF NameTypes, EnabledInv
<1> QED
  BY <1>4, <1>5 DEF ConfigInv

LEMMA InitRLThrowsKeepsConfig ==
    ASSUME ConfigInv, NEW s \in RLState, InitRLThrows(s), UNCHANGED deployment
    PROVE  ConfigInv'
<1>1. /\ state' = "Passive" /\ config_name' = ConfigOf(s, config_name)
      /\ model' \in {model, "null"} /\ rl_init_done' = FALSE
  BY DEF InitRLThrows
<1>2. NameTypes
  BY DEF ConfigInv
<1>3. config_name' \in Config
  BY <1>1, <1>2, ConfigOfFacts DEF NameTypes
<1> QED
  BY <1>1, <1>2, <1>3, StateFacts
     DEF ConfigInv, NameTypes, LoadedInv, EnabledInv

LEMMA ConfigInvStep == ConfigInv /\ [Next]_vars => ConfigInv'
<1> SUFFICES ASSUME ConfigInv, [Next]_vars PROVE ConfigInv'
  OBVIOUS
<1>1. ASSUME NEW s \in RLState, InitRL(s), UNCHANGED deployment
      PROVE  ConfigInv'
  BY <1>1, InitRLKeepsConfig
<1>2. ASSUME NEW s \in RLState, InitRLThrows(s), UNCHANGED deployment
      PROVE  ConfigInv'
  BY <1>2, InitRLThrowsKeepsConfig
<1>3. CASE EnterOther /\ UNCHANGED deployment
  <2>1. /\ state' \in Successors[state] \ RLState /\ rl_init_done' = FALSE
        /\ UNCHANGED <<deployment, config_name, model>>
    BY <1>3 DEF EnterOther
  <2>2. state' \in State
    BY <2>1, StateFacts DEF ConfigInv, NameTypes
  <2> QED
    BY <2>1, <2>2 DEF ConfigInv, NameTypes, LoadedInv, EnabledInv
<1>4. CASE Run /\ UNCHANGED deployment
  <2>1. /\ state \in RLState /\ rl_init_done' = TRUE
        /\ UNCHANGED <<deployment, state, config_name, params, model, period>>
    BY <1>4 DEF Run
  <2> QED
    BY <2>1 DEF ConfigInv, NameTypes, LoadedInv, EnabledInv, PolicyRate, Has
<1>5. CASE UNCHANGED vars
  BY <1>5 DEF vars, ConfigInv, NameTypes, LoadedInv, EnabledInv, PolicyRate,
              Has
<1> QED
  BY <1>1, <1>2, <1>3, <1>4, <1>5 DEF Next, EnterRL

LEMMA ConfigInvHolds == Spec => []ConfigInv
<1> QED
  BY ConfigInvInit, ConfigInvStep, PTL DEF Spec

\* A policy that runs has the model, the period of the loop and every parameter
\* of the file that config_name names, whatever was loaded, or failed to load,
\* before, and whichever keys each file defines; the dance and mjlab name their
\* own, and locomotion never the dance's.
THEOREM RunsItsOwnConfigHolds == Spec => []RunsItsOwnConfig
<1>1. ConfigInv => RunsItsOwnConfig
  BY DEF ConfigInv, LoadedInv, EnabledInv, RunsItsOwnConfig
<1> QED
  BY <1>1, ConfigInvHolds, PTL

(***************************************************************************)
(* RatesAgree.                                                             *)
(***************************************************************************)

\* The keys that a rate depends on, whatever file they came from.
RateKeys(p) ==
    /\ {"dt", "decimation"} \subseteq DOMAIN p
    /\ p.dt \in {200, 240} /\ p.decimation = 4
    /\ deployment = "real" => p.dt = 200
    /\ Has(p, "policy_step_time") => p.policy_step_time \in {50, 60}

\* The same of a file, which may define only some of them.
FileRates(f) ==
    /\ "dt" \in DOMAIN f => f.dt = 200
    /\ "decimation" \in DOMAIN f => f.decimation = 4
    /\ "policy_step_time" \in DOMAIN f => f.policy_step_time \in {50, 60}

\* What PolicyConfig says of the files.
LEMMA FileFacts ==
    /\ \A c \in Config : FileRates(Defines[c])
    /\ \A c \in Config : DOMAIN Defines[c] \subseteq Keys
    /\ "policy_step_time" \in DOMAIN Defines["whole_body_tracking"]
    /\ Defines["whole_body_tracking"].policy_step_time = 60
    /\ "policy_step_time" \in DOMAIN Defines["mjlab"]
    /\ Defines["mjlab"].policy_step_time = 50
<1>1. FileRates(Defines["robot_lab_real"]) /\ FileRates(Defines["robot_lab"])
  BY DEF FileRates, Defines
<1>2. /\ FileRates(Defines["mjlab"])
      /\ "policy_step_time" \in DOMAIN Defines["mjlab"]
      /\ Defines["mjlab"].policy_step_time = 50
  BY DEF FileRates, Defines
<1>3. /\ FileRates(Defines["whole_body_tracking"])
      /\ "policy_step_time" \in DOMAIN Defines["whole_body_tracking"]
      /\ Defines["whole_body_tracking"].policy_step_time = 60
  BY DEF FileRates, Defines
<1>4. \A c \in Config : DOMAIN Defines[c] \subseteq Keys
  BY DEF Keys
<1> QED
  BY <1>1, <1>2, <1>3, <1>4 DEF Config

LEMMA BaseFacts ==
    /\ DOMAIN Base = {"dt", "decimation"}
    /\ deployment \in Deployment => RateKeys(Base)
    /\ deployment = "real" => Base.dt = 200
    /\ deployment = "sim" => Base.dt = 240
BY DEF Base, RateKeys, Has, Deployment

\* A file laid over parameters with rates keeps them.
LEMMA OverlaidKeepsRates ==
    ASSUME NEW p, RateKeys(p), NEW f, FileRates(f)
    PROVE  RateKeys(Overlaid(f, p))
<1>1. /\ DOMAIN Overlaid(f, p) = DOMAIN f \cup DOMAIN p
      /\ \A k \in DOMAIN f : Overlaid(f, p)[k] = f[k]
      /\ \A k \in DOMAIN p \ DOMAIN f : Overlaid(f, p)[k] = p[k]
  BY OverlaidFacts
<1> DEFINE o == Overlaid(f, p)
<1> HIDE DEF o
<1>2. DOMAIN o = DOMAIN f \cup DOMAIN p
  BY <1>1 DEF o
<1>3. o["dt"] = p["dt"] \/ ("dt" \in DOMAIN f /\ o["dt"] = f["dt"])
  BY <1>1 DEF o, RateKeys
<1>4. \/ o["decimation"] = p["decimation"]
      \/ "decimation" \in DOMAIN f /\ o["decimation"] = f["decimation"]
  BY <1>1 DEF o, RateKeys
<1>5. "policy_step_time" \in DOMAIN o =>
        \/ /\ "policy_step_time" \in DOMAIN p
           /\ o["policy_step_time"] = p["policy_step_time"]
        \/ /\ "policy_step_time" \in DOMAIN f
           /\ o["policy_step_time"] = f["policy_step_time"]
  BY <1>1 DEF o
<1>6. RateKeys(o)
  BY <1>2, <1>3, <1>4, <1>5 DEF RateKeys, FileRates, Has
<1> QED
  BY <1>6 DEF o

LEMMA RateIsKnown ==
    ASSUME NEW p, RateKeys(p)
    PROVE  PolicyRate(p) \in {50, 60}
<1>1. 200 \div 4 = 50 /\ 240 \div 4 = 60
  OBVIOUS
<1> QED
  BY <1>1 DEF PolicyRate, RateKeys, Has

\* RatesAgree with what it needs of the parameters.
RateInv ==
    /\ RateKeys(params)
    /\ DOMAIN params \subseteq Keys
    /\ period \in {50, 60}
    /\ control_period = IF deployment = "real" THEN 200 ELSE 240

LEMMA RateInvInit == Init => RateInv
<1> SUFFICES ASSUME Init PROVE RateInv
  OBVIOUS
<1>1. /\ deployment \in Deployment /\ params = Base
      /\ period = PolicyRate(Base) /\ control_period = Base.dt
  BY DEF Init
<1>2. RateKeys(params) /\ period \in {50, 60}
  BY <1>1, BaseFacts, RateIsKnown
<1>3. DOMAIN params \subseteq Keys
  <2>1. DOMAIN Base \subseteq Keys
    BY Zenon DEF Keys
  <2> QED
    BY <1>1, <2>1, Zenon
<1>4. control_period = IF deployment = "real" THEN 200 ELSE 240
  BY <1>1, BaseFacts DEF Deployment
<1> QED
  BY <1>2, <1>3, <1>4 DEF RateInv

LEMMA ReadYamlKeepsRates ==
    ASSUME RateInv, NEW c \in Config, params' = ReadYaml(c),
           UNCHANGED deployment
    PROVE  RateKeys(params)' /\ DOMAIN params' \subseteq Keys
<1>1. RateKeys(ReadYaml(c))
  BY OverlaidKeepsRates, FileFacts DEF RateInv, ReadYaml
<1>2. RateKeys(params)'
  BY <1>1 DEF RateKeys, Has
<1>3. DOMAIN ReadYaml(c) = DOMAIN Defines[c] \cup DOMAIN params
  BY OverlaidFacts DEF ReadYaml
<1> QED
  BY <1>2, <1>3, FileFacts DEF RateInv

LEMMA RateInvStep == ConfigInv /\ RateInv /\ [Next]_vars => RateInv'
<1> SUFFICES ASSUME ConfigInv, RateInv, [Next]_vars PROVE RateInv'
  OBVIOUS
<1>1. ASSUME NEW s \in RLState, InitRL(s), UNCHANGED deployment
      PROVE  RateInv'
  <2>1. /\ params' = ReadYaml(ConfigOf(s, config_name))
        /\ period' = PolicyRate(params') /\ UNCHANGED control_period
    BY <1>1 DEF InitRL
  <2>2. ConfigOf(s, config_name) \in Config
    BY ConfigOfFacts DEF ConfigInv, NameTypes
  <2>3. RateKeys(params)' /\ DOMAIN params' \subseteq Keys
    BY <1>1, <2>1, <2>2, ReadYamlKeepsRates
  <2>4. PolicyRate(params)' \in {50, 60}
    BY <2>3, RateIsKnown DEF RateKeys, Has, PolicyRate
  <2> QED
    BY <1>1, <2>1, <2>3, <2>4 DEF RateInv, Keys, Base, PolicyRate, Has
<1>2. ASSUME NEW s \in RLState, InitRLThrows(s), UNCHANGED deployment
      PROVE  RateInv'
  <2>1. /\ \/ params' = params
           \/ params' = ReadYaml(ConfigOf(s, config_name))
        /\ UNCHANGED <<period, control_period>>
    BY <1>2 DEF InitRLThrows
  <2>2. ConfigOf(s, config_name) \in Config
    BY ConfigOfFacts DEF ConfigInv, NameTypes
  <2>3. RateKeys(params)' /\ DOMAIN params' \subseteq Keys
    <3>1. CASE params' = params
      BY <1>2, <3>1 DEF RateInv, RateKeys, Has
    <3>2. CASE params' = ReadYaml(ConfigOf(s, config_name))
      BY <1>2, <2>2, <3>2, ReadYamlKeepsRates
    <3> QED
      BY <2>1, <3>1, <3>2
  <2> QED
    BY <1>2, <2>1, <2>3 DEF RateInv, Keys, Base
<1>3. CASE /\ EnterOther \/ Run \/ UNCHANGED vars
           /\ UNCHANGED deployment
  <2>1. UNCHANGED <<deployment, params, period, control_period>>
    BY <1>3 DEF EnterOther, Run, vars
  <2> QED
    BY <2>1 DEF RateInv, RateKeys, Has, Keys, Base
<1> QED
  BY <1>1, <1>2, <1>3 DEF Next, EnterRL, vars

LEMMA InvHolds == Spec => [](ConfigInv /\ RateInv)
<1>1. Init => ConfigInv /\ RateInv
  BY ConfigInvInit, RateInvInit
<1>2. (ConfigInv /\ RateInv) /\ [Next]_vars => (ConfigInv /\ RateInv)'
  BY ConfigInvStep, RateInvStep
<1> QED
  BY <1>1, <1>2, PTL DEF Spec

\* The dance and mjlab run at the rates of their files, whatever file was laid
\* over the parameters before; on the real robot dt is the period of the loop
\* that counts in it; and the variables keep their types.
THEOREM RatesAgreeHolds == Spec => []RatesAgree
<1>1. ConfigInv /\ RateInv => RatesAgree
  <2> SUFFICES ASSUME ConfigInv, RateInv PROVE RatesAgree
    OBVIOUS
  <2>1. TypeOK
    <3>1. DOMAIN Base \subseteq DOMAIN params
      BY BaseFacts DEF RateInv, RateKeys
    <3>2. period \in {50, 60} /\ control_period \in {200, 240}
      BY DEF RateInv
    <3>3. {period, control_period} \subseteq {50, 60, 200, 240}
      BY <3>2
    <3> QED
      BY <3>1, <3>3, Zenon DEF ConfigInv, NameTypes, RateInv, TypeOK
  <2>2. TrackingAtItsRate
    <3> SUFFICES ASSUME rl_init_done
                 PROVE  /\ state = "RLWholeBodyTrackingDance" => period = 60
                        /\ state = "RLMjlabTracking" => period = 50
      BY DEF TrackingAtItsRate
    <3>1. state \in RLState
      BY DEF ConfigInv, EnabledInv
    <3>2. CASE state = "RLWholeBodyTrackingDance"
      <4>1. /\ period = PolicyRate(params)
            /\ "policy_step_time" \in DOMAIN params
            /\ params["policy_step_time"] = 60
        BY <3>1, <3>2, FileFacts DEF ConfigInv, LoadedInv
      <4> QED
        BY <3>2, <4>1 DEF PolicyRate, Has
    <3>3. CASE state = "RLMjlabTracking"
      <4>1. /\ period = PolicyRate(params)
            /\ "policy_step_time" \in DOMAIN params
            /\ params["policy_step_time"] = 50
        BY <3>1, <3>3, FileFacts DEF ConfigInv, LoadedInv
      <4> QED
        BY <3>3, <4>1 DEF PolicyRate, Has
    <3> QED
      BY <3>2, <3>3
  <2>3. DtIsControlPeriod
    BY DEF RateInv, RateKeys, DtIsControlPeriod
  <2> QED
    BY <2>1, <2>2, <2>3 DEF RatesAgree
<1> QED
  BY <1>1, InvHolds, PTL
=============================================================================
