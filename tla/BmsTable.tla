------------------------------ MODULE BmsTable ------------------------------
(***************************************************************************)
(* The message table of the battery protocol                               *)
(* (services/protocol/can/bms/generated/proto_bms_table.cpp), kept down to *)
(* the columns the codec uses: where a signal starts, how many bits it     *)
(* has, factor, offset, and whether it names its values.  The factor is    *)
(* the fraction num/den, so that a physical value in units of 1/den is     *)
(* an integer.  Initial values, limits, units, comments and texts are left *)
(* out: no code under src/ reads them.                                     *)
(***************************************************************************)
EXTENDS Integers, Sequences

Signal(name, start, len, num, den, off, enum) ==
    [name |-> name, start |-> start, len |-> len,
     num |-> num, den |-> den, off |-> off, enum |-> enum]

\* The shapes the rows of the table come in.
Flag(name, start) == Signal(name, start, 1, 1, 1, 0, TRUE)
Level(name, start) == Signal(name, start, 2, 1, 1, 0, TRUE)
Code(name, start, len) == Signal(name, start, len, 1, 1, 0, TRUE)
Field(name, start, len) == Signal(name, start, len, 1, 1, 0, FALSE)
Temp(name, start) == Signal(name, start, 8, 1, 1, -40, FALSE)
Scaled(name, start, len, num, den, off) ==
    Signal(name, start, len, num, den, off, FALSE)

-----------------------------------------------------------------------------
V2B_CMD_Orders ==
    << Field("V2B_CMD_LifeSignal", 0, 8), Level("V2B_CMD_HV_OnOff", 8),
       Level("V2B_CMD_Aux1OnOff", 10), Level("V2B_CMD_Aux2OnOff", 12),
       Level("V2B_CMD_Aux3OnOff", 14), Field("V2B_CMD_VehicleSpeed", 16, 8),
       Level("V2B_CMD_MainPosRelayST", 24),
       Level("V2B_CMD_MainPosRelayFlt", 26),
       Level("V2B_CMD_MainNegRelayST", 28),
       Level("V2B_CMD_MainNegRelayFlt", 30) >>

V2B_CMD_Relays ==
    << Level("V2B_CMD_ChrgPosRelayST", 32),
       Level("V2B_CMD_ChrgPosRelayFlt", 34),
       Level("V2B_CMD_HeatPosRelayST", 36),
       Level("V2B_CMD_HeatPosRelayFlt", 38),
       Level("V2B_CMD_HeatNegRelayST", 40),
       Level("V2B_CMD_HeatNegRelayFlt", 42), Level("V2B_CMD_Aux1RelayST", 44),
       Level("V2B_CMD_Aux1RelayFlt", 46) >>

V2B_CMD_AuxRelays ==
    << Level("V2B_CMD_Aux2RelayST", 48), Level("V2B_CMD_Aux2RelayFlt", 50),
       Level("V2B_CMD_Aux3RelayST", 52), Level("V2B_CMD_Aux3RelayFlt", 54),
       Level("V2B_CMD_Aux4RelayST", 56), Level("V2B_CMD_Aux4RelayFlt", 58),
       Field("V2B_CMD_Reserved1", 60, 2), Field("V2B_CMD_Reserved2", 62, 2) >>

Fult1_Levels ==
    << Field("Reserved", 0, 2), Level("B2V_Fult1_DelTemp", 2),
       Level("B2V_Fult1_OverTemp", 4), Level("B2V_Fult1_PackOverHVolt", 6),
       Level("B2V_Fult1_PackLowHVolt", 8), Level("B2V_Fult1_LowSOC", 10),
       Level("B2V_Fult1_OverUcell", 12), Level("B2V_Fult1_LowUcell", 14),
       Level("B2V_Fult1_LowInsRes", 16) >>

Fult1_Flags ==
    << Level("B2V_Fult1_UcellUniformity", 18), Level("B2V_Fult1_OverChg", 20),
       Level("B2V_Fult1_OverSOC", 22), Flag("B2V_Fult1_SOCChangeFast", 24),
       Flag("B2V_Fult1_BatSysNotMatch", 25), Flag("B2V_Fult1_HVILFault", 26),
       Field("B2V_Fult1_FaultNum_32960", 27, 5), Field("Reserved", 32, 32) >>

Fult2_Cells ==
    << Field("B2V_Fult2_FaultNum", 0, 8),
       Flag("B2V_Fult2_CellOverDischrg", 8), Flag("B2V_Fult2_CellLowTemp", 9),
       Flag("B2V_Fult2_PackFireWarning", 10),
       Level("B2V_Fult2_OverDischrgCurr", 11),
       Level("B2V_Fult2_OverChrgCurrInTheDrive", 13),
       Flag("B2V_Fult2_CurrSensorErr", 15),
       Flag("B2V_Fult2_PowerSupplyErr", 16), Flag("B2V_Fult2_TMSErr", 17) >>

Fult2_Loops ==
    << Flag("B2V_Fult2_HeatungFilmErr", 18),
       Flag("B2V_Fult2_PackSelfProtect", 19),
       Flag("B2V_Fult2_MainLoopPrechrgErr", 20),
       Flag("B2V_Fult2_AuxLoopPrechrgErr", 21),
       Flag("B2V_Fult2_ChrgInsLowErr", 22), Flag("B2V_Fult2_ACANLost", 23),
       Flag("B2V_Fult2_InnerCommunicationErr", 24),
       Flag("B2V_Fult2_DCDCErr", 25), Flag("B2V_Fult2_BranchBreakErr", 26) >>

Fult2_MainRelays ==
    << Flag("B2V_Fult2_HeatRelayOpenErr", 27),
       Flag("B2V_Fult2_HeatRelayWeldErr", 28),
       Flag("B2V_Fult2_MainPosRelayOpenErr", 29),
       Flag("B2V_Fult2_MainPosRelayWeldErr", 30),
       Flag("B2V_Fult2_MainNegRelayOpenErr", 31),
       Flag("B2V_Fult2_MainNegRelayWeldErr", 32) >>

Fult2_DcRelays ==
    << Flag("B2V_Fult2_DCChrgPos1RelayOpenErr", 33),
       Flag("B2V_Fult2_DCChrgPos1RelayWeldErr", 34),
       Flag("B2V_Fult2_DCChrgNeg1RelayOpenErr", 35),
       Flag("B2V_Fult2_DCChrgNeg1RelayWeldErr", 36),
       Flag("B2V_Fult2_DCChrgPos2RelayOpenErr", 37),
       Flag("B2V_Fult2_DCChrgPos2RelayWeldErr", 38),
       Flag("B2V_Fult2_DCChrgNeg2RelayOpenErr", 39),
       Flag("B2V_Fult2_DCChrgNeg2RelayWeldErr", 40) >>

Fult2_AcRelays ==
    << Flag("B2V_Fult2_ACChrgPosRelayOpenErr", 41),
       Flag("B2V_Fult2_ACChrgPosRelayWeldErr", 42),
       Flag("B2V_Fult2_ACChrgNegRelayOpenErr", 43),
       Flag("B2V_Fult2_ACChrgNegRelayWeldErr", 44),
       Flag("B2V_Fult2_PantoChrgPosRelayOpenErr", 45),
       Flag("B2V_Fult2_PantoChrgPosRelayWeldErr", 46),
       Flag("B2V_Fult2_PantoChrgNegRelayOpenErr", 47),
       Flag("B2V_Fult2_PantoChrgNegRelayWeldErr", 48) >>

Fult2_Charging ==
    << Flag("B2V_Fult2_ChrgConnectErr", 49),
       Flag("B2V_Fult2_OverDischrgCurrWhenInChrg", 50),
       Flag("B2V_Fult2_OverChrgCurrInTheChrg", 51),
       Flag("B2V_Fult2_ChrgNTCErr", 52),
       Level("B2V_Fult2_ChrgNTCTempOver", 53),
       Flag("B2V_Fult2_ELockErr", 55) >>

Fult2_Limits ==
    << Flag("B2V_Fult2_FireDetectorErr", 56),
       Level("B2V_Fult2_ContiChrgCurrOverLoad", 57),
       Flag("B2V_Fult2_SOCDifferErr", 59),
       Level("B2V_Fult2_ContiDischrgCurrOverLoad", 60),
       Flag("B2V_Fult2_Reserved1", 62), Flag("B2V_Fult2_Reserved2", 63) >>

ST1_MainRelays ==
    << Level("B2V_ST1_MainPosRelaySt", 0), Level("B2V_ST1_MainNegRelaySt", 2),
       Level("B2V_ST1_PrechrgRelaySt", 4),
       Level("B2V_ST1_DCChrgPos1RelaySt", 6),
       Level("B2V_ST1_DCChrgNeg1RelaySt", 8),
       Level("B2V_ST1_DCChrgPos2RelaySt", 10),
       Level("B2V_ST1_DCChrgNeg2RelaySt", 12),
       Level("B2V_ST1_HeatPosRelaySt", 14),
       Level("B2V_ST1_HeatNegRelaySt", 16) >>

ST1_ChargeRelays ==
    << Level("B2V_ST1_PantoChrgPosRelaySt", 18),
       Level("B2V_ST1_PantoChrgNegRelaySt", 20),
       Level("B2V_ST1_ACChrgPosRelaySt", 22),
       Level("B2V_ST1_ACChrgNegRelaySt", 24),
       Level("B2V_ST1_Aux1RelaySt", 26), Level("B2V_ST1_Aux2RelaySt", 28),
       Level("B2V_ST1_Aux3RelaySt", 30) >>

ST1_Status ==
    << Level("B2V_ST1_BMS_HVStatus", 32),
       Flag("B2V_ST1_BMS_BalanceStatus", 34),
       Level("B2V_ST1_DCChrgConnectSt", 35),
       Flag("B2V_ST1_PantoChrgConnectSt", 37),
       Flag("B2V_ST1_ACChrgConnectSt", 38), Level("B2V_ST1_ChrgMode", 39),
       Level("B2V_ST1_ChrgStatus", 41), Flag("B2V_ST1_HeatingStatus", 43),
       Level("B2V_ST1_CoolingStatus", 44),
       Field("B2V_ST1_RechrgCycels", 46, 18) >>

ST2 ==
    << Scaled("B2V_ST2_SOC", 0, 8, 2, 5, 0),
       Scaled("B2V_ST2_SOH", 8, 8, 2, 5, 0),
       Scaled("B2V_ST2_PackCurrent", 16, 16, 1, 10, -1000),
       Scaled("B2V_ST2_PackInsideVolt", 32, 16, 1, 10, 0),
       Field("B2V_ST2_FaultCode", 48, 8), Code("B2V_ST2_FaultLevel", 56, 3),
       Flag("B2V_ST2_RqHVPoerOff", 59), Code("B2V_ST2_Life", 60, 4) >>

ST3 ==
    << Field("B2V_ST3_PosInsRes", 0, 16), Field("B2V_ST3_NegInsRes", 16, 16),
       Field("B2V_ST3_SysInsRes", 32, 16), Flag("B2V_ST3_InsDetectorSt", 48),
       Field("Reserved", 49, 15) >>

ST4 ==
    << Temp("B2V_ST4_Max_Temp", 0), Temp("B2V_ST4_Min_Temp", 8),
       Temp("B2V_ST4_Avg_Temp", 16), Field("B2V_ST4_MaxTemp_CSCNo", 24, 8),
       Field("B2V_ST4_MaxTemp_Position", 32, 8),
       Field("B2V_ST4_MinTemp_CSCNo", 40, 8),
       Field("B2V_ST4_MinTemp_Position", 48, 8), Field("Reserved", 56, 8) >>

ST5 ==
    << Scaled("B2V_ST5_Max_Ucell", 0, 16, 1, 1000, 0),
       Scaled("B2V_ST5_Min_Ucell", 16, 16, 1, 1000, 0),
       Scaled("B2V_ST5_Avg_Ucell", 32, 16, 1, 1000, 0),
       Field("Reserved", 48, 16) >>

ST6 ==
    << Field("B2V_ST6_MaxUcell_CSCNo", 0, 8),
       Field("B2V_ST6_MaxUcell_Position", 8, 16),
       Field("B2V_ST6_MinUcell_CSCNo", 24, 8),
       Field("B2V_ST6_MinUcell_Position", 32, 16),
       Field("Reserved", 48, 16) >>

ST7 ==
    << Temp("B2V_ST7_Gun1DCPosTemp", 0), Temp("B2V_ST7_Gun1DCNegTemp", 8),
       Temp("B2V_ST7_Gun2DCPosTemp", 16), Temp("B2V_ST7_Gun2DCNegTemp", 24),
       Temp("B2V_ST7_GunACPosTemp", 32), Temp("B2V_ST7_GunACNegTemp", 40),
       Field("B2V_ST7_Reserved1", 48, 8), Field("B2V_ST7_Reserved2", 56, 8) >>

ElecEnergy ==
    << Field("B2V_TotChgEnergy", 0, 24), Field("B2V_TotDischgEnergy", 24, 24),
       Scaled("B2V_SingleChgEnergy", 48, 16, 1, 10, 0) >>

CurrentLimit ==
    << Scaled("B2V_AvailInpulseDischrgCurr", 0, 16, 1, 10, 0),
       Scaled("B2V_AvailInpulseChrgCurr", 16, 16, 1, 10, 0),
       Scaled("B2V_AvailFollowChrgCurr", 32, 16, 1, 10, 0),
       Scaled("B2V_AvailFollowDishrgCurr", 48, 16, 1, 10, 0) >>

B2TM ==
    << Level("B2T_RQ_SetMode_A", 0), Level("B2T_RQ_HV_A", 2),
       Level("B2T_ChgST_A", 4), Level("B2T_BMS_HVRelayST_A", 6),
       Field("B2T_BMS_HVVolt_A", 16, 16), Field("B2T_BMS_R1", 24, 8),
       Temp("B2T_SetTemp_A", 32), Field("B2T_BMS_R2", 40, 8),
       Field("B2TM_BMS_ALIV_A", 48, 8), Field("B2TM_CRC_A", 56, 8) >>

TM2B ==
    << Level("T2B_WorkStatus_A", 0), Level("T2B_TMS_HVRelayST_A", 2),
       Field("Reserved", 4, 4), Temp("TM2B_OutletTemp_A", 8),
       Temp("TM2B_InletTemp_A", 16), Field("Reserved", 32, 16),
       Scaled("TM2B_RQPower_A", 48, 16, 1, 10, 0),
       Code("TM2B_FaultCode_A", 56, 6), Level("TM2B_FaultLevel_A", 62) >>

Fire_Sensors ==
    << Field("Fire_valueNumber", 0, 8), Field("Fire_valueAlarmLevel", 8, 8),
       Flag("Fire_byStartSts", 16), Flag("Fire_SnerrrorSts", 17),
       Flag("Fire_HwerrrorSts", 18), Field("Fire_Reserved", 19, 5),
       Flag("Fire_byTempSenor1Err", 24), Flag("Fire_byTempSenor2Err", 25),
       Flag("Fire_byAirSenorErr", 26), Flag("Fire_bySAMSenorErr", 27) >>

Fire_Alarms ==
    << Field("Fire_Reserved", 28, 4), Flag("Fire_Tmp_alarm", 32),
       Flag("Fire_Gus_alarm", 33), Flag("Fire_Fog_alarm", 34),
       Flag("Fire_Leak_alarm", 35), Field("Fire_Reserved", 36, 4),
       Temp("Fire_Max_Tmp", 40), Scaled("Fire_Max_Gus", 48, 8, 10, 1, 0),
       Scaled("Fire_Max_Fog", 56, 8, 10, 1, 0) >>

-----------------------------------------------------------------------------
Message(id, intel, signals) == [id |-> id, intel |-> intel, signals |-> signals]

\* kMessages: the identifier, the byte order and the signals of each message.
Messages ==
    [V2B_CMD |-> Message(\h1802F3EF, TRUE,
                    V2B_CMD_Orders \o V2B_CMD_Relays \o V2B_CMD_AuxRelays),
     B2V_Fult1_32960 |-> Message(\h1881EFF3, TRUE, Fult1_Levels \o Fult1_Flags),
     B2V_Fult2 |-> Message(\h1882EFF3, TRUE,
                    Fult2_Cells \o Fult2_Loops \o Fult2_MainRelays
                    \o Fult2_DcRelays \o Fult2_AcRelays
                    \o Fult2_Charging \o Fult2_Limits),
     B2V_ST1 |-> Message(\h1883EFF3, TRUE,
                    ST1_MainRelays \o ST1_ChargeRelays \o ST1_Status),
     B2V_ST2 |-> Message(\h1884EFF3, TRUE, ST2),
     B2V_ST3 |-> Message(\h1885EFF3, TRUE, ST3),
     B2V_ST4 |-> Message(\h1886EFF3, TRUE, ST4),
     B2V_ST5 |-> Message(\h1887EFF3, TRUE, ST5),
     B2V_ST6 |-> Message(\h1888EFF3, TRUE, ST6),
     B2V_ST7 |-> Message(\h1889EFF3, TRUE, ST7),
     B2V_ElecEnergy |-> Message(\h18C3EFF3, TRUE, ElecEnergy),
     B2V_CurrentLimit |-> Message(\h18C4EFF3, TRUE, CurrentLimit),
     B2TM_Info |-> Message(\h18FF45F4, FALSE, B2TM),
     TM2B_Info |-> Message(\h18FFC13A, FALSE, TM2B),
     Fire2B_state |-> Message(\h18FFF10F, TRUE, Fire_Sensors \o Fire_Alarms)]

MessageNames == DOMAIN Messages
=============================================================================
