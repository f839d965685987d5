-------------------------------- MODULE Sdk --------------------------------
(***************************************************************************)
(* The classes of the SDK that a library calls.  They share no state, so   *)
(* one of them is chosen at the start, and the others stand still.         *)
(***************************************************************************)
EXTENDS CronSchedule, ConfigCodec, HttpClient, WeworkMessage

CONSTANT Parts   \* the classes that are looked at

VARIABLE part

sdkVars == <<vars, codecVars, clientVars, weworkVars, part>>

SdkInit ==
  /\ part \in Parts
  /\ Init
  /\ CodecInit /\ (part # "TfcConfigCodec" => file = <<>>)
  /\ ClientInit /\ (part # "BotEngine" => environ = Unset)
  /\ WeworkInit

UseCronConfig ==
  part = "CronConfig" /\ Next /\ UNCHANGED <<codecVars, clientVars, weworkVars, part>>

UseTfcConfigCodec ==
  part = "TfcConfigCodec" /\ CodecNext /\ UNCHANGED <<vars, clientVars, weworkVars, part>>

UseBotEngine ==
  part = "BotEngine" /\ ClientNext /\ UNCHANGED <<vars, codecVars, weworkVars, part>>

UseWeworkMessage ==
  part = "WeworkMessage" /\ WeworkNext /\ UNCHANGED <<vars, codecVars, clientVars, part>>

SdkNext == UseCronConfig \/ UseTfcConfigCodec \/ UseBotEngine \/ UseWeworkMessage

SdkSpec == SdkInit /\ [][SdkNext]_sdkVars

-----------------------------------------------------------------------------
(* The types of the variables of all the classes. *)
SdkTypeOK == part \in Parts /\ TypeOK /\ CodecTypeOK /\ ClientTypeOK /\ WeworkTypeOK
=============================================================================
