------------------------------ MODULE StartUp ------------------------------
(***************************************************************************)
(* What the environment must say before a production API starts            *)
(* (validateRuntimeConfig and assertProductionSafe), and what three        *)
(* services then read out of the same variables on their own: the payment  *)
(* configuration (resolveActive), the amounts of a top-up                  *)
(* (WalletPaymentSettingsService) and the default policy of a job.         *)
(* A variable is one of a few words, "" where it is not set; the text of   *)
(* an amount is what Number makes of it (value, in micro-USD) and whether  *)
(* it is written in plain digits.                                          *)
(***************************************************************************)
EXTENDS JobPricing

CONSTANTS
    MicroPerUsd,        \* micro-USD in a USD; a million in the code
    QrisLimit           \* XENDIT_QRIS_MAX_IDR

ASSUME StartUpAssumption ==
    /\ MicroPerUsd \in Nat \ {0}
    /\ QrisLimit \in Nat \ {0}

-----------------------------------------------------------------------------
(* Top-ups *)

Subtotal(purchase, rate) == CeilDivide(purchase * rate, MicroPerUsd)

UniqueCodes(s) == IF s.uniqueCode THEN s.codeMin..s.codeMax ELSE {0}

Total(s, purchase, code) == Subtotal(purchase, s.rate) + s.serviceFee + code

(* The bounds of the settings, in rupiah.                                  *)
LeastRate == 1000
MostRate == 200000
MostFee == 1000000
MostCode == 9999

(* Mutant: the unique code is not part of the largest total. *)
ValidWithoutCode(s) ==
    /\ s.rate \in LeastRate..MostRate
    /\ s.min <= s.max
    /\ Total(s, s.max, 0) <= QrisLimit

(* normalize: settings out of these bounds are refused wherever they come  *)
(* from.                                                                   *)
ValidTopUps(s) ==
    /\ s.rate \in LeastRate..MostRate
    /\ s.serviceFee \in 0..MostFee
    /\ s.codeMin \in 0..MostCode /\ s.codeMax \in 0..MostCode
    /\ s.min <= s.max
    /\ s.codeMin <= s.codeMax
    /\ Total(s, s.max, IF s.uniqueCode THEN s.codeMax ELSE 0) <= QrisLimit

(* quote, with the code that randomInt draws. *)
Quotable(s, purchase, code) ==
    /\ purchase \in s.min..s.max
    /\ code \in UniqueCodes(s)
    /\ Total(s, purchase, code) <= QrisLimit

(* What is bought for where the environment does not say, in USD.          *)
LeastTopUp == 1
MostTopUp == 500

(* parseEnvironmentUsd: an amount is a text, and one that is not written   *)
(* in plain digits, six of them behind the point at most, or that is not   *)
(* above zero, is passed over without a word.                              *)
EnvironmentUsd(text, fallback) ==
    IF text.plain /\ text.value > 0 THEN text.value ELSE fallback * MicroPerUsd

(* A display rate that is not set is 17,700.                               *)
DisplayRate(env) == IF env.displayRate = 0 THEN 17700 ELSE env.displayRate

(* get: the settings of the environment must be valid even where others    *)
(* are stored.                                                             *)
EnvironmentTopUps(env) ==
    [env.topUps EXCEPT !.rate = DisplayRate(env),
                       !.min = EnvironmentUsd(env.topUps.min, LeastTopUp),
                       !.max = EnvironmentUsd(env.topUps.max, MostTopUp)]

(* update: only valid settings are stored. *)
ReadTopUps(env, storedTopUps) ==
    IF ValidTopUps(EnvironmentTopUps(env))
    THEN {IF storedTopUps = {} THEN EnvironmentTopUps(env) ELSE CHOOSE s \in storedTopUps : TRUE}
    ELSE {}

-----------------------------------------------------------------------------
(* The payment provider *)

(* bool: four words turn a switch off; any other leaves a provider on. *)
SwitchedOn(word) == word \notin {"false", "0", "no", "off"}

(* resolveActive for the environment alone, and active: whether there is a *)
(* provider to pay with.  enabled and keys are those of the primary one.   *)
HasActiveProvider(env) ==
    IF env.provider \in {"xendit", "midtrans"} THEN SwitchedOn(env.enabled) /\ env.keys
    ELSE env.sandboxAllowed

-----------------------------------------------------------------------------
(* validateRuntimeConfig *)

(* Here the rate of a top-up is the platform's where there is no other,    *)
(* and any rate above zero will do.                                        *)
StartRate(env) ==
    CASE env.displayRate > 0 -> env.displayRate
      [] env.displayRate = 0 /\ env.platformRate > 0 -> env.platformRate
      [] OTHER -> 17700

(* Mutant: top-ups are not validated at the start. *)
AnyTopUps(env) == StartRate(env) > 0

(* Number reads an amount in any notation.                                 *)
ValidTopUpsAtStart(env) ==
    LET s == env.topUps
    IN  /\ s.min.value > 0 /\ s.max.value >= s.min.value
        /\ StartRate(env) > 0
        /\ s.serviceFee >= 0
        /\ s.codeMin >= 0 /\ s.codeMax >= s.codeMin
        /\ Subtotal(s.max.value, StartRate(env)) + s.serviceFee + s.codeMax <= QrisLimit

(* The keys of the primary provider are asked for; of its switch only the  *)
(* word "false" is minded, and only for Xendit.                            *)
ValidProvider(env) ==
    /\ env.provider \in {"sandbox", "midtrans", "xendit"}
    /\ env.provider # "sandbox" => env.keys
    /\ env.provider = "xendit" => env.enabled # "false"
    /\ env.provider = "sandbox" /\ env.sandboxAllowed => env.sandboxSecret

PersistentStorage(env) ==
    /\ env.database
    /\ env.jobStorage \in {"", "postgres"}
    /\ env.sessionStorage \in {"", "postgres", "postgresql"}

(* assertProductionSafe: an API that has an error in its environment does  *)
(* not start.  env.secrets: the secrets, the administrator to begin with,  *)
(* the origins and the rates of the AI providers are as they must be.      *)
Starts(env) ==
    /\ env.secrets
    /\ PersistentStorage(env)
    /\ ValidProvider(env)
    /\ ValidTopUpsAtStart(env)
    /\ ValidPolicy(env.policy)
=============================================================================
