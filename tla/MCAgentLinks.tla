---------------------------- MODULE MCAgentLinks ----------------------------
(* An agent that routes by settings, and one with a provider definition and *)
(* a companion file.                                                        *)
EXTENDS AgentLinks

AgentProfiles == {{"route", "key"}, {"provider", "choice"}}
RoutedAgent == {{"route", "key"}}
OneSetting == {{"route"}}
=============================================================================
