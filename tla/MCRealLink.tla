----------------------------- MODULE MCRealLink -----------------------------
EXTENDS RealLink

TwoPolicies == {"robot_lab_real", "whole_body_tracking"}
=============================================================================
