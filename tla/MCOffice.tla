------------------------------ MODULE MCOffice ------------------------------
(***************************************************************************)
(* Model checking of the back office: members, roles and second factors,   *)
(* API keys, settings and the AI catalogue.  They share no rows here, so a *)
(* behaviour is one of a single part, its cast.                            *)
(***************************************************************************)
EXTENDS AdminAccounts, ApiKeys, Settings, Catalogue

VARIABLE cast

mcVars == <<cast, accountVars, apiKeyVars, settingVars, catalogueVars>>

Init ==
    /\ \/ cast = "team" /\ TeamInit
       \/ cast = "mfa" /\ MfaInit
       \/ /\ cast \in {"ai keys", "server keys", "settings", "email", "providers", "models"}
          /\ MfaInit /\ ~mfa.enabled
    /\ ApiKeysInit /\ SettingsInit /\ CatalogueInit

AccountsCast ==
    /\ \/ cast = "team" /\ TeamNext
       \/ cast = "mfa" /\ MfaNext
    /\ UNCHANGED <<apiKeyVars, settingVars, catalogueVars>>

KeysCast ==
    /\ \/ cast = "ai keys" /\ ApiKeysNext(KeyIds \ ServerKeyIds)
       \/ cast = "server keys" /\ ApiKeysNext(ServerKeyIds)
    /\ UNCHANGED <<accountVars, settingVars, catalogueVars>>

SettingsCast ==
    /\ \/ cast = "settings" /\ SettingNext
       \/ cast = "email" /\ EmailNext
    /\ UNCHANGED <<accountVars, apiKeyVars, catalogueVars>>

CatalogueCast ==
    /\ \/ cast = "providers" /\ ProviderNext
       \/ cast = "models" /\ ModelNext
    /\ UNCHANGED <<accountVars, apiKeyVars, settingVars>>

Next == UNCHANGED cast /\ (AccountsCast \/ KeysCast \/ SettingsCast \/ CatalogueCast)

Spec == Init /\ [][Next]_mcVars

\* What administrators change at the same time is all kept and can be used,
\* and keys that are lost let nobody in (update_ai_api_key, authenticate_api_key,
\* update_email_settings, update_ai_model).
OfficeKept == ApiKeysKept /\ SettingsKept /\ CatalogueKept
=============================================================================
