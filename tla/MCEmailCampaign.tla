-------------------------- MODULE MCEmailCampaign --------------------------
\* Instances of EmailCampaign for TLC: the configuration names all values.
EXTENDS EmailCampaign
=============================================================================
