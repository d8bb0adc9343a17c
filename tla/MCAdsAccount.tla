---------------------------- MODULE MCAdsAccount ----------------------------
EXTENDS AdsAccountProperties

CONSTANTS v1, v2, c1

MCSurroundings == {{"Restart", "ChangeWallet"}, {"AdsOnOff", "Issuers"},
                   {"RefillErrors"}, {"PayoutErrors"}, {"Migrate"}}
MCWalletChange == {{"ChangeWallet"}}
=============================================================================
