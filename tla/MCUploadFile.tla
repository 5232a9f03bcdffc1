---------------------------- MODULE MCUploadFile ----------------------------
(* An instance of UploadFile for TLC.                                      *)
EXTENDS UploadFile

ThreeSenders == <<"email", "pagerduty", "slack">>
TwoAlerters == <<"slack", "pagerduty">>
=============================================================================
