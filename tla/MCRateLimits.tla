---------------------------- MODULE MCRateLimits ----------------------------
EXTENDS RateLimits
=============================================================================
